---- MODULE Spec2Model ----
(***************************************************************************)
(* A model of the option-tracker repository: the order monitors            *)
(* (SmartPollingMonitor, PollingOrderMonitor), the multi-account copy      *)
(* trader (OrderTracker, CopyTradingSettings, MultiAccountCopyTrader) and  *)
(* the pure decision functions of CopyTradingSettings.                     *)
(*                                                                         *)
(* Each entry point of the repository is its own process; the variable     *)
(* program says which one a behaviour is about.  The broker is the         *)
(* environment: every order-book call draws its outcome (a response or a   *)
(* raised error) from a bounded set, and so does every placement.          *)
(* Time is in whole seconds and is measured from the present: now is 0,   *)
(* and the passing of d seconds moves every stored timestamp back by d.    *)
(***************************************************************************)
EXTENDS Integers, Sequences, FiniteSets, TLC

\* ------------------------------------------------------------------ bounds

\* Longest order book a broker response carries.
MaxBook == 2
\* Throttling errors in a row the broker answers with.
MaxThrottles == 5
\* The history counter of "reported as new" saturates here.
MaxReports == 2
\* Login attempts one account makes before it is left alone.
MaxLogins == 4
\* order-book calls of one rate-limit window that raised an error which is not
\* throttling-class
MaxUncounted == 2

\* ------------------------------------------------------- program constants

max_calls_per_minute == 10
market_hours_interval == 6
off_hours_interval == 60
WindowSeconds == 60
WindowBuffer == 1
BackoffBase == 60
BackoffCap == 300
max_retries == 3
\* initialize_session(max_retries=3, base_delay=60)
session_max_retries == 3
base_delay == 60
\* ClientManager.initialization_delay
initialization_delay == 5
\* MultiAccountCopyTrader.start_monitoring(interval=3)
poll_interval == 3

\* time.time(): the present is the origin of the clock.
now == 0
\* Python's None, for an order id and for a field that holds no value.
None == "None"
\* Python's None in a field that otherwise holds a number (backoff_until,
\* fixed_quantity).
NoValue == -1

\* ------------------------------------------------------------------ orders

OrderIds == {"A", "B"}
\* An order's 'orderid' as the wire gives it: an id, or None for one that is
\* absent or empty (the code reads only its truthiness).
OrderIdValues == OrderIds \cup {None}
Statuses == {"complete", "open"}
\* An order without an id is never looked at further, so one status stands for it.
Orders == [orderid : OrderIds, status : Statuses]
          \cup [orderid : {None}, status : {"complete"}]

\* A test that lets every order id through.
TruthyAny(order_id) == TRUE
\* Python truthiness of an order id (`if order_id`).
Truthy(order_id) == order_id \notin {None, ""}

RECURSIVE SeqsUpTo(_, _)
SeqsUpTo(S, n) ==
    IF n = 0 THEN {<<>>}
    ELSE LET shorter == SeqsUpTo(S, n - 1)
         IN  shorter \cup {Append(s, x) : s \in {t \in shorter : Len(t) = n - 1}, x \in S}

Books == SeqsUpTo(Orders, MaxBook)

\* What get_order_book() may do: return None, a dict without 'data', a dict
\* whose 'data' is None, a dict whose 'data' is a list of orders; or raise an
\* error whose message is throttling-class ('rate' / 'access denied') or not.
FetchOutcomes ==
    {[kind |-> k, data |-> <<>>] : k \in {"None", "NoData", "NullData", "RateError", "OtherError"}}
    \cup {[kind |-> "Data", data |-> b] : b \in Books}

\* The outcomes whose orders are all complete: SmartPollingMonitor and
\* PollingOrderMonitor never read an order's status.
MonitorOutcomes ==
    {out \in FetchOutcomes : \A i \in 1..Len(out.data) : out.data[i].status = "complete"}

Raised(out) == out.kind \in {"RateError", "OtherError"}
\* `order_book and 'data' in order_book`
HasDataKey(out) == out.kind \in {"NullData", "Data"}
\* `order_book and 'data' in order_book and order_book['data']`
HasOrders(out) == out.kind = "Data" /\ out.data # <<>>

IdsOf(data) == {data[i].orderid : i \in 1..Len(data)}

Min(a, b) == IF a <= b THEN a ELSE b

Max(a, b) == IF a >= b THEN a ELSE b

RECURSIVE Pow2(_)
Pow2(n) == IF n <= 0 THEN 1 ELSE 2 * Pow2(n - 1)

\* How a call of get_order_book() ended.
Ended(out) == IF ~Raised(out) THEN "returned" ELSE out.kind

\* ------------------------------------------------------------------- state

VARIABLES
    program,                  \* the entry point this behaviour runs
    pc,                       \* where that program is
    known_order_ids,          \* SmartPollingMonitor / PollingOrderMonitor
    attempt,                  \* _initialize_known_orders: loop index
    api_calls_count,
    api_calls_window_start,   \* a timestamp, at most now, kept down to now - 60
    consecutive_rate_limits,
    backoff_until,            \* None or a timestamp; one that has passed is kept as now
    new_orders,               \* the list the last check_for_new_orders returned
    last_op,                  \* the operation that made the last step
    last_call,                \* what the last check did about the order-book call
    seed_ids,                 \* history: the ids of the seed snapshot
    new_count,                \* history: how often each id was reported as new
    throttle_run,             \* history: throttling errors since the last call that returned
    recovered,                \* history: a call that returned has ended a run of throttling errors
    seen_again,               \* history: the ids the last check's order book showed when already known
    skipped,                  \* history: the ids first seen on an order that was not complete
    last_fresh,               \* history: the orders is_new_order accepted in the last check
    settings,                 \* CopyTradingSettings
    follower_clients,         \* ClientManager: the followers whose session initialized
    known_master_orders,      \* OrderTracker
    copy_records,
    failed_copies,
    placements,               \* history: the placement requests submitted to followers
    evaluated,                \* history: the orders passed to should_copy_order
    eval_order,               \* the order a settings function is applied to
    eval_quantity,            \* the master quantity calculate_follower_quantity is applied to
    eval_result,              \* what the settings function returned
    sessions,                 \* per account: is_initialized, session_data, feed_token, session_time
    last_session,             \* the last initialize_session call: what it did and returned
    login_count,              \* history: the login attempts made for each account
    config_followers,         \* MultiAccountConfig.follower_accounts
    init_trace,               \* history: the logins and waits of initialize_clients, in order
    tick_calls,               \* history: order-book calls of start_monitoring in the current
                              \* 60 seconds; NoValue in a behaviour that does not follow its clock
    window_calls,             \* history: order-book calls issued since api_calls_window_start
    idless,                   \* history: the orders without an id in the book of the last check;
                              \* NoValue in a behaviour that keeps no history of the books
    start_ids,                \* history: the ids in the order book when seeding fetched it
    fetched,                  \* history: how the order-book fetch of the last check ended;
                              \* "off" in a behaviour that keeps no history of it
    completed_later,          \* history, kept with fetched: the ids a later order book
                              \* showed complete after they were first seen not complete
    logs_dir,                 \* the file system: there is a logs/ directory to write to
    saved,                    \* the file system: what save_to_file wrote
    clock,                    \* datetime.now(), where the program reads it
    thread_pc,                \* web_ui: where each thread running start_monitoring is
    instance,                 \* SmartAPIClient._instance
    session_initialized,      \* SmartAPIClient._session_initialized
    thread_client,            \* web_ui: the object SmartAPIClient() gave each thread
    generated,                \* history: the calls of generateSession that returned a session
    running                   \* web_ui: monitoring_status['running']

monitorVars == <<known_order_ids, attempt, api_calls_count, api_calls_window_start,
                 consecutive_rate_limits, backoff_until>>
historyVars == <<seed_ids, new_count, throttle_run, recovered, seen_again, skipped,
                 last_fresh>>
trackerVars == <<known_master_orders, copy_records, failed_copies>>
copyVars == <<follower_clients, trackerVars, placements, evaluated>>
evalVars == <<eval_order, eval_quantity, eval_result>>
sessionVars == <<sessions, last_session, login_count, config_followers, init_trace>>
probeVars == <<tick_calls, window_calls, idless, start_ids, fetched, completed_later>>
fileVars == <<logs_dir, saved>>
webVars == <<thread_pc, instance, session_initialized, thread_client, generated, running>>
restVars == <<probeVars, fileVars, clock, webVars>>
vars == <<program, pc, monitorVars, new_orders, last_op, last_call, historyVars,
          settings, copyVars, evalVars, sessionVars, restVars>>

NoCall == [called |-> FALSE, waited |-> 0, kind |-> "None"]

\* The history of reports after a check returned the list `returned`.
RECURSIVE Count(_, _)
Count(returned, id) ==
    IF returned = <<>> THEN 0
    ELSE (IF Head(returned).orderid = id THEN 1 ELSE 0) + Count(Tail(returned), id)

Reported(returned) ==
    [id \in OrderIdValues |-> Min(new_count[id] + Count(returned, id), MaxReports)]

\* The ids of the order book `data` that were known before it was scanned.
Again(data, known) == IdsOf(data) \cap known \cap OrderIds

\* A stored timestamp after d seconds have passed.
Earlier(ts, d, floor) == Max(ts - d, floor)
WindowStartAfter(d) == Earlier(api_calls_window_start, d, now - WindowSeconds)
BackoffUntilAfter(d) ==
    IF backoff_until = NoValue THEN NoValue ELSE Earlier(backoff_until, d, now)

\* The histories of the order books are kept in this behaviour.
BooksKept == idless # NoValue

\* The orders without an id in the book a check was given.
Idless(out) ==
    IF HasOrders(out) THEN Len(SelectSeq(out.data, LAMBDA o : ~Truthy(o.orderid))) ELSE 0

\* The ids in the order book when seeding fetched it: those the fetch
\* returned, or, when it raised, the ids `ids` nobody saw.
IdsAtStart(out, ids) ==
    IF Raised(out) THEN ids
    ELSE IF HasOrders(out) THEN IdsOf(out.data) \cap OrderIds
    ELSE {}

\* The first fetch of seeding, in the history.
SeedFetched(out) ==
    IF BooksKept /\ Raised(out)
    THEN \E ids \in SUBSET OrderIds : start_ids' = IdsAtStart(out, ids)
    ELSE start_ids' = (IF BooksKept THEN IdsAtStart(out, {}) ELSE start_ids)

\* How a fetch ended, with a 'data' that is an empty list told apart.
FetchKind(out) == IF out.kind = "Data" /\ out.data = <<>> THEN "EmptyData" ELSE out.kind

\* A check, in the history.
BookChecked(out) ==
    /\ idless' = (IF BooksKept THEN Idless(out) ELSE idless)
    /\ fetched' = (IF fetched = "off" THEN fetched ELSE FetchKind(out))

\* A monitor that forgets what it knows when a poll brings no orders.
KnownClearedWithoutOrders(out, found, known) == IF HasOrders(out) THEN found ELSE {}
\* The known set after a check: the scan's when the book held orders, else
\* untouched.
KnownAfter(out, found, known) == IF HasOrders(out) THEN found ELSE known

\* ------------------------------------------ the monitors' detection loops

\* A scan that does not record the ids it reports.
RememberNothing(order_id, known) == known
\* A scan that keeps only the id it saw last.
RememberOnlyLatest(order_id, known) == {order_id}
\* `self.known_order_ids.add(order_id)`
Remember(order_id, known) == known \cup {order_id}

\* `for order in data: if order_id and order_id not in known: known.add; new.append`
RECURSIVE FindNewOrders(_, _)
FindNewOrders(data, known) ==
    IF data = <<>> THEN [new |-> <<>>, known |-> known]
    ELSE LET order == Head(data)
             fresh == Truthy(order.orderid) /\ order.orderid \notin known
             rest  == FindNewOrders(Tail(data),
                                    IF fresh THEN Remember(order.orderid, known) ELSE known)
         IN  [new   |-> IF fresh THEN <<order>> \o rest.new ELSE rest.new,
              known |-> rest.known]

\* A constructor that keeps nothing of the seed snapshot.
SeedNothing(data) == {}
\* `self.known_order_ids = {order.get('orderid') for order in order_data}`
SeedKnown(data) == IdsOf(data)

\* ------------------------------------------------- SmartPollingMonitor

\* One pass of the retry loop of _initialize_known_orders, then (when the loop
\* ends) the rest of __init__, which sets the rate-limit and backoff fields.
SmartInitializeKnownOrders(out) ==
    LET last == attempt >= max_retries - 1
        \* a fetch that returns ends the loop; an error ends it on the last pass
        ends == ~Raised(out) \/ last
    IN  /\ program \in {"smart", "direct"} /\ pc = "seeding"
        /\ last_op' = "seed"
        /\ known_order_ids' =
               IF ~Raised(out)
               THEN (IF HasOrders(out) THEN SeedKnown(out.data) ELSE known_order_ids)
               ELSE IF out.kind = "RateError" /\ ~last THEN known_order_ids
               ELSE {}
        /\ seed_ids' = IF HasOrders(out) THEN IdsOf(out.data) ELSE seed_ids
        /\ attempt' = IF ends THEN attempt ELSE attempt + 1
        /\ pc' = IF ends THEN "polling" ELSE "seeding"
        /\ api_calls_count' = 0
        /\ api_calls_window_start' = now
        /\ consecutive_rate_limits' = 0
        /\ backoff_until' = NoValue
        /\ window_calls' = 0
        \* a retry fetches the book of an account that has kept its orders
        /\ (BooksKept /\ attempt > 0 /\ ~Raised(out)) => start_ids \subseteq IdsAtStart(out, {})
        /\ IF attempt = 0 THEN SeedFetched(out) ELSE start_ids' = start_ids
        /\ UNCHANGED <<tick_calls, idless, fetched, completed_later, fileVars, clock, webVars, program, new_orders, last_call, new_count, throttle_run,
                       recovered, seen_again, skipped, last_fresh, settings, copyVars, evalVars, sessionVars>>

\* A limiter that resets the counter at the limit without sleeping.
CheckRateLimitNoSleep(count, window_start) ==
    LET expired == now - window_start >= WindowSeconds
        count1  == IF expired THEN 0 ELSE count
        start1  == IF expired THEN now ELSE window_start
    IN  IF count1 >= max_calls_per_minute
        THEN [count |-> 0, window_start |-> now, waited |-> 0]
        ELSE [count |-> count1, window_start |-> start1, waited |-> 0]

\* _check_rate_limit: the counter and window start it leaves and the seconds
\* it slept.
CheckRateLimit(count, window_start) ==
    LET expired == now - window_start >= WindowSeconds
        count1  == IF expired THEN 0 ELSE count
        start1  == IF expired THEN now ELSE window_start
        wait_time == WindowSeconds - (now - start1)
        sleeps  == count1 >= max_calls_per_minute /\ wait_time > 0
    IN  IF sleeps
        THEN [count |-> 0, window_start |-> now, waited |-> wait_time + WindowBuffer]
        ELSE [count |-> count1, window_start |-> start1, waited |-> 0]

\* A backoff that doubles without a cap.
BackoffTimeUncapped(n) == BackoffBase * Pow2(n - 1)
\* backoff_time = min(60 * (2 ** (consecutive_rate_limits - 1)), 300)
BackoffTime(n) == Min(BackoffBase * Pow2(n - 1), BackoffCap)

\* A backoff test that is never true.
InBackoffIgnored == backoff_until # NoValue /\ now > backoff_until
\* `self.backoff_until and time.time() < self.backoff_until`
InBackoff == backoff_until # NoValue /\ now < backoff_until

\* A call that returned and left the backoff fields as they were.
AfterSuccessNoReset(lim) ==
    [api_calls_count |-> lim.count + 1, api_calls_window_start |-> lim.window_start,
     consecutive_rate_limits |-> consecutive_rate_limits,
     backoff_until |-> BackoffUntilAfter(lim.waited)]
\* The fields a call that returned leaves.
AfterSuccess(lim) ==
    [api_calls_count |-> lim.count + 1, api_calls_window_start |-> lim.window_start,
     consecutive_rate_limits |-> 0, backoff_until |-> NoValue]

\* The fields a call that raised a throttling-class error leaves.
AfterRateError(lim) ==
    [api_calls_count |-> 0, api_calls_window_start |-> now,
     consecutive_rate_limits |-> consecutive_rate_limits + 1,
     backoff_until |-> now + BackoffTime(consecutive_rate_limits + 1)]

\* A monitor that backs off after every error.
AfterOtherErrorBacksOff(lim) == AfterRateError(lim)
\* The fields a call that raised any other error leaves.
AfterOtherError(lim) ==
    [api_calls_count |-> lim.count, api_calls_window_start |-> lim.window_start,
     consecutive_rate_limits |-> consecutive_rate_limits,
     backoff_until |-> BackoffUntilAfter(lim.waited)]

\* datetime.now(): the day of the week (Monday is 0) and the time of day.
Clocks ==
    [weekday : 0..6, hour : {0, 9, 12, 15, 23}, minute : {0, 14, 15, 16, 29, 30, 31, 59},
     second : {0, 1, 59}, microsecond : {0, 500000}]

\* now.replace(hour=h, minute=m, second=sec): the microsecond is kept.
Replace(dt, h, m, sec) == [dt EXCEPT !.hour = h, !.minute = m, !.second = sec]

\* a <= b for two datetimes of one day.
NotAfter(a, b) ==
    \/ a.hour < b.hour
    \/ a.hour = b.hour /\ a.minute < b.minute
    \/ a.hour = b.hour /\ a.minute = b.minute /\ a.second < b.second
    \/ a.hour = b.hour /\ a.minute = b.minute /\ a.second = b.second
          /\ a.microsecond <= b.microsecond

\* _is_market_hours
is_market_hours(dt) ==
    IF dt.weekday >= 5 THEN FALSE
    ELSE LET market_open == Replace(dt, 9, 15, 0)
             market_close == Replace(dt, 15, 30, 0)
         IN  NotAfter(market_open, dt) /\ NotAfter(dt, market_close)

\* _adaptive_interval
adaptive_interval(dt) ==
    IF is_market_hours(dt) THEN market_hours_interval ELSE off_hours_interval

\* _adaptive_interval, applied at the time the clock shows.
EvalAdaptiveInterval ==
    /\ program = "hours" /\ pc = "ready"
    /\ pc' = "done"
    /\ last_op' = "adaptive_interval"
    /\ eval_result' = adaptive_interval(clock)
    /\ UNCHANGED <<probeVars, fileVars, clock, webVars, program, monitorVars, new_orders,
                   last_call, historyVars, settings, copyVars, eval_order, eval_quantity,
                   sessionVars>>

\* check_for_new_orders, and in start() the step to the sleep that follows it.
SmartCheckForNewOrders(out) ==
    /\ program \in {"smart", "direct"} /\ pc = "polling"
    /\ last_op' = "check"
    /\ pc' = IF program = "smart" THEN "sleeping" ELSE pc
    /\ IF InBackoff
       THEN /\ new_orders' = <<>>
            /\ last_call' = NoCall
            /\ seen_again' = {}
            /\ idless' = (IF BooksKept THEN 0 ELSE idless)
            /\ fetched' = (IF fetched = "off" THEN fetched ELSE "NotCalled")
            /\ UNCHANGED <<monitorVars, seed_ids, new_count, throttle_run, recovered,
                           skipped, last_fresh, window_calls>>
       ELSE LET lim == CheckRateLimit(api_calls_count, api_calls_window_start)
                found == FindNewOrders(out.data, known_order_ids)
                returned == IF HasOrders(out) THEN found.new ELSE <<>>
                after == IF ~Raised(out) THEN AfterSuccess(lim)
                         ELSE IF out.kind = "RateError" THEN AfterRateError(lim)
                         ELSE AfterOtherError(lim)
                \* the calls issued since the window start _check_rate_limit left
                issued == IF now - api_calls_window_start >= WindowSeconds \/ lim.waited > 0
                          THEN 0 ELSE window_calls
            IN  /\ out.kind = "RateError" => throttle_run < MaxThrottles
                /\ out.kind = "OtherError" => issued - lim.count < MaxUncounted
                /\ window_calls' = IF out.kind = "RateError" THEN 0 ELSE issued + 1
                /\ BookChecked(out)
                /\ last_call' = [called |-> TRUE, waited |-> lim.waited, kind |-> Ended(out)]
                /\ new_orders' = returned
                /\ new_count' = Reported(returned)
                /\ known_order_ids' = KnownAfter(out, found.known, known_order_ids)
                /\ api_calls_count' = after.api_calls_count
                /\ api_calls_window_start' = after.api_calls_window_start
                /\ consecutive_rate_limits' = after.consecutive_rate_limits
                /\ backoff_until' = after.backoff_until
                /\ throttle_run' = IF ~Raised(out) THEN 0
                                   ELSE IF out.kind = "RateError" THEN throttle_run + 1
                                   ELSE throttle_run
                /\ recovered' = (recovered \/ (~Raised(out) /\ throttle_run > 0))
                /\ seen_again' = IF HasOrders(out) THEN Again(out.data, known_order_ids) ELSE {}
                /\ UNCHANGED <<attempt, seed_ids, skipped, last_fresh>>
    /\ UNCHANGED <<tick_calls, start_ids, completed_later, fileVars, clock, webVars, program, settings,
                   copyVars, evalVars, sessionVars>>

\* start(): time.sleep(self.current_interval) between two checks.
Intervals == {market_hours_interval, off_hours_interval}
\* The time a caller of check_for_new_orders lets pass between two calls.
Delays == {market_hours_interval, off_hours_interval}

Sleep(d) ==
    /\ \/ program = "smart" /\ pc = "sleeping" /\ d \in Intervals
       \/ program = "direct" /\ pc = "polling" /\ d \in Delays
    /\ pc' = "polling"
    /\ last_op' = "sleep"
    /\ api_calls_window_start' = WindowStartAfter(d)
    /\ backoff_until' = BackoffUntilAfter(d)
    /\ UNCHANGED <<restVars, program, known_order_ids, attempt, api_calls_count,
                   consecutive_rate_limits, new_orders, last_call, historyVars,
                   settings, copyVars, evalVars, sessionVars>>

\* start(): KeyboardInterrupt, during a check or the sleep after it, ends the
\* loop.
SmartInterrupt ==
    /\ program = "smart" /\ pc \in {"polling", "sleeping"}
    /\ pc' = "stopped"
    /\ last_op' = "interrupt"
    /\ UNCHANGED <<restVars, program, monitorVars, new_orders, last_call, historyVars,
                   settings, copyVars, evalVars, sessionVars>>

\* The state of the polling monitor: the constructor seeds, start() polls,
\* and the monitor is in backoff while backoff_until lies ahead.
PhaseOf(at, until) ==
    IF at = "seeding" THEN "SEEDING"
    ELSE IF at = "stopped" THEN "STOPPED"
    ELSE IF until # NoValue /\ now < until THEN "BACKOFF"
    ELSE "POLLING"

\* ------------------------------------------------- PollingOrderMonitor

PollingInitializeKnownOrders(out) ==
    /\ program = "polling" /\ pc = "seeding"
    /\ last_op' = "seed"
    /\ known_order_ids' = IF HasOrders(out) THEN SeedKnown(out.data) ELSE known_order_ids
    /\ seed_ids' = IF HasOrders(out) THEN IdsOf(out.data) ELSE seed_ids
    /\ pc' = "polling"
    /\ SeedFetched(out)
    /\ UNCHANGED <<tick_calls, window_calls, idless, fetched, completed_later, fileVars, clock, webVars, program, attempt, api_calls_count, api_calls_window_start,
                   consecutive_rate_limits, backoff_until, new_orders, last_call,
                   new_count, throttle_run, recovered, seen_again, skipped, last_fresh,
                   settings, copyVars, evalVars, sessionVars>>

PollingCheckForNewOrders(out) ==
    LET found == FindNewOrders(out.data, known_order_ids)
        returned == IF HasOrders(out) THEN found.new ELSE <<>>
    IN  /\ program = "polling" /\ pc = "polling"
        /\ last_op' = "check"
        /\ new_orders' = returned
        /\ new_count' = Reported(returned)
        /\ known_order_ids' = KnownAfter(out, found.known, known_order_ids)
        /\ seen_again' = IF HasOrders(out) THEN Again(out.data, known_order_ids) ELSE {}
        /\ BookChecked(out)
        /\ UNCHANGED <<tick_calls, window_calls, start_ids, completed_later, fileVars, clock, webVars, program, pc, attempt, last_call, api_calls_count, api_calls_window_start,
                       consecutive_rate_limits, backoff_until, seed_ids, throttle_run,
                       recovered, skipped, last_fresh, settings, copyVars, evalVars, sessionVars>>

\* ------------------------------------------------- CopyTradingSettings

Symbols == {"NIFTY", "FINNIFTY"}
\* order.get('tradingsymbol', ''): a listed symbol, an unlisted one, or none.
OrderSymbols == Symbols \cup {"BANKNIFTY", ""}
\* order.get('ordertype', ''), as the wire may spell it.
OrderTypes == {"MARKET", "market", "LIMIT", "Limit", "STOPLOSS", "stoploss",
               "STOPLOSS_MARKET", "STOPLOSS_LIMIT", ""}

\* str.upper()
Upper(t) ==
    CASE t = "market" -> "MARKET"
      [] t = "Limit" -> "LIMIT"
      [] t = "stoploss" -> "STOPLOSS"
      [] OTHER -> t

\* quantity_multiplier, a float, as the fraction num / den it stands for.
Multipliers == {[num |-> 0, den |-> 1], [num |-> 1, den |-> 4], [num |-> 1, den |-> 2],
                [num |-> 1, den |-> 1], [num |-> 3, den |-> 2], [num |-> 5, den |-> 2]}
\* fixed_quantity: None, or a quantity.
FixedQuantities == {NoValue, 0, 1, 25}
MasterQuantities == {0, 1, 3, 50, 75, 100}

\* CopyTradingSettings.__init__
DefaultSettings ==
    [copy_all_orders |-> TRUE, allowed_symbols |-> {}, blocked_symbols |-> {},
     use_fixed_quantity |-> FALSE, fixed_quantity |-> NoValue,
     quantity_multiplier |-> [num |-> 1, den |-> 1],
     copy_market_orders |-> TRUE, copy_limit_orders |-> TRUE, copy_stop_orders |-> TRUE,
     dry_run |-> FALSE, require_confirmation |-> FALSE]

\* A filter that consults the allow-list before the block-list.
should_copy_order_allow_first(order, s) ==
    LET symbol == order.tradingsymbol
        order_type == Upper(order.ordertype)
    IN  IF ~s.copy_all_orders /\ symbol \notin s.allowed_symbols
        THEN [copy |-> FALSE, reason |-> <<"Symbol", symbol, "not in allowed list">>]
        ELSE IF symbol \in s.blocked_symbols
        THEN [copy |-> FALSE, reason |-> <<"Symbol", symbol, "is blocked">>]
        ELSE IF order_type = "MARKET" /\ ~s.copy_market_orders
        THEN [copy |-> FALSE, reason |-> <<"Market orders disabled">>]
        ELSE IF order_type = "LIMIT" /\ ~s.copy_limit_orders
        THEN [copy |-> FALSE, reason |-> <<"Limit orders disabled">>]
        ELSE IF order_type \in {"STOPLOSS", "STOPLOSS_MARKET"} /\ ~s.copy_stop_orders
        THEN [copy |-> FALSE, reason |-> <<"Stop orders disabled">>]
        ELSE [copy |-> TRUE, reason |-> <<"Order passes all filters">>]

\* A filter whose stop rule knows STOPLOSS only.
should_copy_order_one_stop_type(order, s) ==
    LET symbol == order.tradingsymbol
        order_type == Upper(order.ordertype)
    IN  IF symbol \in s.blocked_symbols
        THEN [copy |-> FALSE, reason |-> <<"Symbol", symbol, "is blocked">>]
        ELSE IF ~s.copy_all_orders /\ symbol \notin s.allowed_symbols
        THEN [copy |-> FALSE, reason |-> <<"Symbol", symbol, "not in allowed list">>]
        ELSE IF order_type = "MARKET" /\ ~s.copy_market_orders
        THEN [copy |-> FALSE, reason |-> <<"Market orders disabled">>]
        ELSE IF order_type = "LIMIT" /\ ~s.copy_limit_orders
        THEN [copy |-> FALSE, reason |-> <<"Limit orders disabled">>]
        ELSE IF order_type = "STOPLOSS" /\ ~s.copy_stop_orders
        THEN [copy |-> FALSE, reason |-> <<"Stop orders disabled">>]
        ELSE [copy |-> TRUE, reason |-> <<"Order passes all filters">>]

should_copy_order(order, s) ==
    LET symbol == order.tradingsymbol
        order_type == Upper(order.ordertype)
    IN  IF symbol \in s.blocked_symbols
        THEN [copy |-> FALSE, reason |-> <<"Symbol", symbol, "is blocked">>]
        ELSE IF ~s.copy_all_orders /\ symbol \notin s.allowed_symbols
        THEN [copy |-> FALSE, reason |-> <<"Symbol", symbol, "not in allowed list">>]
        ELSE IF order_type = "MARKET" /\ ~s.copy_market_orders
        THEN [copy |-> FALSE, reason |-> <<"Market orders disabled">>]
        ELSE IF order_type = "LIMIT" /\ ~s.copy_limit_orders
        THEN [copy |-> FALSE, reason |-> <<"Limit orders disabled">>]
        ELSE IF order_type \in {"STOPLOSS", "STOPLOSS_MARKET"} /\ ~s.copy_stop_orders
        THEN [copy |-> FALSE, reason |-> <<"Stop orders disabled">>]
        ELSE [copy |-> TRUE, reason |-> <<"Order passes all filters">>]

\* int(x) of the quotient a / b, b > 0: Python truncates toward zero.
IntOf(a, b) == IF a >= 0 THEN a \div b ELSE -((-a) \div b)

\* A calculation that returns the fixed quantity whenever one is set.
calculate_follower_quantity_ignoring_mode(master_quantity, s) ==
    IF s.fixed_quantity \notin {NoValue, 0}
    THEN s.fixed_quantity
    ELSE IntOf(master_quantity * s.quantity_multiplier.num, s.quantity_multiplier.den)

calculate_follower_quantity(master_quantity, s) ==
    IF s.use_fixed_quantity /\ s.fixed_quantity \notin {NoValue, 0}
    THEN s.fixed_quantity
    ELSE IntOf(master_quantity * s.quantity_multiplier.num, s.quantity_multiplier.den)

\* ------------------------------------------------- OrderTracker

\* A tracker that answers without recording the id.
is_new_order_forgetful(order_id, known) ==
    [new |-> order_id \notin known, known |-> known]
\* is_new_order on the known set `known`: what it returns and the set it leaves.
is_new_order(order_id, known) ==
    IF order_id \in known
    THEN [new |-> FALSE, known |-> known]
    ELSE [new |-> TRUE, known |-> known \cup {order_id}]

\* record_copy: the record it appends.
CopyRecord(master_order, follower_name, success) ==
    [master_order_id |-> master_order.orderid, symbol |-> master_order.tradingsymbol,
     quantity |-> master_order.quantity, follower |-> follower_name, success |-> success]

\* Statistics whose rate is that of the failures.
get_statistics_of_failures(records) ==
    LET total == Len(records)
        successful == Len(SelectSeq(records, LAMBDA r : r.success))
        failed == total - successful
    IN  [total_copies |-> total, successful |-> successful, failed |-> failed,
         success_rate |-> IF total > 0 THEN [num |-> failed * 100, den |-> total]
                          ELSE [num |-> 0, den |-> 1]]

\* get_statistics; success_rate, a float, as the fraction num / den it stands for.
get_statistics(records) ==
    LET total == Len(records)
        successful == Len(SelectSeq(records, LAMBDA r : r.success))
        failed == total - successful
    IN  [total_copies |-> total, successful |-> successful, failed |-> failed,
         success_rate |-> IF total > 0 THEN [num |-> successful * 100, den |-> total]
                          ELSE [num |-> 0, den |-> 1]]

\* A log that leaves the statistics of the session out.
save_to_file_without_statistics(records) ==
    [records |-> records, statistics |-> get_statistics(<<>>)]
\* save_to_file: what json.dump is given.
save_to_file(records) ==
    [records |-> records, statistics |-> get_statistics(records)]

\* ------------------------------------------------- MultiAccountCopyTrader

Followers == <<"Follower1", "Follower2">>
\* The follower sessions that initialized, in configuration order.
FollowerLists == {<<>>, <<Followers[2]>>, Followers}

\* The details the master's order book carries for each order id.
MasterOrder(order) ==
    IF order.orderid = "A"
    THEN [orderid |-> order.orderid, status |-> order.status, tradingsymbol |-> "NIFTY",
          ordertype |-> "MARKET", quantity |-> 100]
    ELSE [orderid |-> order.orderid, status |-> order.status, tradingsymbol |-> "FINNIFTY",
          ordertype |-> "LIMIT", quantity |-> 75]

\* _initialize_known_orders: `if order_id: known_master_orders.add(order_id)`
CopyInitializeKnownOrders(out) ==
    /\ program = "copy" /\ pc = "seeding"
    /\ last_op' = "seed"
    /\ known_master_orders' =
           IF HasOrders(out)
           THEN known_master_orders \cup {id \in IdsOf(out.data) : Truthy(id)}
           ELSE known_master_orders
    /\ seed_ids' = IF HasOrders(out) THEN IdsOf(out.data) ELSE seed_ids
    /\ pc' = "polling"
    /\ SeedFetched(out)
    /\ UNCHANGED <<tick_calls, window_calls, idless, fetched, completed_later, fileVars, clock, webVars, program, monitorVars, new_orders, last_call, new_count, throttle_run,
                   recovered, seen_again, skipped, last_fresh, settings, follower_clients,
                   copy_records, failed_copies, placements, evaluated, evalVars, sessionVars>>

\* A check that returns a first-seen order whatever its status.
AnyStatus(order) == TRUE
\* `if order.get('status') == 'complete'`
Completed(order) == order.status = "complete"

\* The loop of check_for_new_orders:
\* `if order_id and is_new_order(order_id): if status == 'complete': append`
RECURSIVE FindCompletedNewOrders(_, _)
FindCompletedNewOrders(data, known) ==
    IF data = <<>> THEN [new |-> <<>>, fresh |-> <<>>, known |-> known]
    ELSE LET order == Head(data)
             seen  == IF Truthy(order.orderid) THEN is_new_order(order.orderid, known)
                      ELSE [new |-> FALSE, known |-> known]
             rest  == FindCompletedNewOrders(Tail(data), seen.known)
         IN  [new   |-> IF seen.new /\ Completed(order)
                        THEN <<order>> \o rest.new ELSE rest.new,
              fresh |-> IF seen.new THEN <<order>> \o rest.fresh ELSE rest.fresh,
              known |-> rest.known]

\* One pass of the loop of start_monitoring up to the return of
\* check_for_new_orders; the orders it returned are then copied one by one.
CopyCheckForNewOrders(out) ==
    LET found == FindCompletedNewOrders(out.data, known_master_orders)
        returned == IF HasOrders(out) THEN found.new ELSE <<>>
        \* the orders for which is_new_order returned True
        fresh == IF HasOrders(out) THEN found.fresh ELSE <<>>
    IN  /\ program = "copy" /\ pc = "polling"
        /\ last_op' = "check"
        /\ new_orders' = returned
        /\ last_fresh' = fresh
        /\ new_count' = Reported(fresh)
        /\ seen_again' = IF HasOrders(out) THEN Again(out.data, known_master_orders) ELSE {}
        /\ skipped' = skipped \cup {fresh[i].orderid :
                                     i \in {j \in 1..Len(fresh) : fresh[j].status # "complete"}}
        /\ known_master_orders' = KnownAfter(out, found.known, known_master_orders)
        /\ pc' = IF returned = <<>> THEN "polling" ELSE "copying"
        /\ BookChecked(out)
        /\ tick_calls' = IF tick_calls = NoValue THEN NoValue
                         ELSE IF tick_calls * poll_interval >= WindowSeconds THEN 1
                         ELSE tick_calls + 1
        /\ completed_later' =
               IF fetched = "off" \/ ~HasOrders(out) THEN completed_later
               ELSE completed_later \cup
                        {out.data[i].orderid :
                            i \in {j \in 1..Len(out.data) :
                                      out.data[j].orderid \in skipped /\ Completed(out.data[j])}}
        /\ UNCHANGED <<window_calls, start_ids, fileVars, clock, webVars, program, monitorVars, last_call, seed_ids, throttle_run, recovered,
                       settings, follower_clients, copy_records, failed_copies, placements,
                       evaluated, evalVars, sessionVars>>

\* What place_order may do on a follower: return a response whose status is
\* true, return one whose status is false, or raise.
PlaceOutcomes == {"placed", "rejected", "raised"}

\* A copy loop that gives up at the first follower whose placement fails.
RECURSIVE CopyToFollowersUntilFailure(_, _, _)
CopyToFollowersUntilFailure(master_order, followers, outcome) ==
    IF followers = <<>> THEN <<>>
    ELSE <<CopyRecord(master_order, Head(followers), outcome[Head(followers)] = "placed")>>
         \o (IF outcome[Head(followers)] = "placed"
             THEN CopyToFollowersUntilFailure(master_order, Tail(followers), outcome)
             ELSE <<>>)

\* _copy_to_single_follower for each of `followers` in turn: the records appended.
RECURSIVE CopyToFollowers(_, _, _)
CopyToFollowers(master_order, followers, outcome) ==
    IF followers = <<>> THEN <<>>
    ELSE <<CopyRecord(master_order, Head(followers), outcome[Head(followers)] = "placed")>>
         \o CopyToFollowers(master_order, Tail(followers), outcome)

\* The placement requests _copy_to_single_follower submits for `followers`.
RECURSIVE PlaceOrders(_, _)
PlaceOrders(master_order, followers) ==
    IF followers = <<>> THEN <<>>
    ELSE <<[master_order_id |-> master_order.orderid, follower |-> Head(followers),
            quantity |-> calculate_follower_quantity(master_order.quantity, settings)]>>
         \o PlaceOrders(master_order, Tail(followers))

\* A tracker that puts every record on the failed list.
FailedAll(records) == records
\* `if not success: self.failed_copies.append(record)`
Failed(records) == SelectSeq(records, LAMBDA r : ~r.success)

\* get_all_active_followers
get_all_active_followers ==
    SelectSeq(follower_clients, LAMBDA f : sessions[f].is_initialized)

\* `order.get('ordertype', '').upper()` raises when the order book gives the
\* order type as null.
should_copy_order_raises(order) == order.ordertype = None

\* A copy trader that never takes the dry-run exit.
DryRunIgnored(s) == FALSE
\* `if self.settings.dry_run:` the order is displayed and nothing is placed.
DryRun(s) == s.dry_run

\* copy_order_to_followers on the next order check_for_new_orders returned.
\* confirmed: the answer to the confirmation prompt, when there is one.
CopyOrderToFollowers(outcome, confirmed) ==
    LET master_order == MasterOrder(Head(new_orders))
        decision == should_copy_order(master_order, settings)
        active_followers == get_all_active_followers
        copies == /\ decision.copy
                  /\ active_followers # <<>>
                  /\ ~DryRun(settings)
                  /\ settings.require_confirmation => confirmed
        records == IF copies THEN CopyToFollowers(master_order, active_followers, outcome)
                   ELSE <<>>
    IN  /\ program = "copy" /\ pc = "copying"
        /\ last_op' = "copy"
        /\ evaluated' = evaluated \cup {Head(new_orders)}
        /\ placements' = IF copies THEN placements \o PlaceOrders(master_order, active_followers)
                         ELSE placements
        /\ copy_records' = copy_records \o records
        /\ failed_copies' = failed_copies \o Failed(records)
        /\ new_orders' = Tail(new_orders)
        /\ pc' = IF Tail(new_orders) = <<>> THEN "polling" ELSE "copying"
        /\ last_fresh' = <<>>
        /\ UNCHANGED <<restVars, program, monitorVars, last_call, seed_ids, new_count, throttle_run,
                       recovered, seen_again, skipped, settings, follower_clients,
                       known_master_orders, evalVars, sessionVars>>

\* copy_order_to_followers has reached
\* `input("Copy this order to N followers? (yes/no): ")` for the next order:
\* the order passed the filter, there are active followers, dry_run is off and
\* require_confirmation is on.
AtConfirmation ==
    /\ program = "copy" /\ pc = "copying"
    /\ should_copy_order(MasterOrder(Head(new_orders)), settings).copy
    /\ get_all_active_followers # <<>>
    /\ ~DryRun(settings)
    /\ settings.require_confirmation

\* copy_order_to_followers on an order for which it does not prompt.
CopyWithoutConfirmation(outcome) ==
    /\ ~AtConfirmation
    /\ CopyOrderToFollowers(outcome, TRUE)

\* input() returns what the user typed, and copy_order_to_followers goes on.
AnswerConfirmation(outcome, confirmed) ==
    /\ AtConfirmation
    /\ CopyOrderToFollowers(outcome, confirmed)

\* _display_summary: the statistics are printed, then save_to_file writes the
\* log under logs/; open() raises when the directory is missing, and
\* save_to_file reports the failure and returns.
DisplaySummary ==
    /\ eval_result' = get_statistics(copy_records)
    /\ saved' = IF logs_dir THEN Append(saved, save_to_file(copy_records)) ELSE saved
    /\ UNCHANGED logs_dir

\* copy_order_to_followers on an order whose order type is null:
\* should_copy_order raises, nothing in copy_order_to_followers catches it,
\* and `except Exception` of start_monitoring ends the loop with
\* _display_summary.
CopyOrderRaises ==
    LET master_order == [MasterOrder(Head(new_orders)) EXCEPT !.ordertype = None]
    IN  /\ program = "copy" /\ pc = "copying"
        /\ should_copy_order_raises(master_order)
        /\ pc' = "stopped"
        /\ last_op' = "error"
        /\ evaluated' = evaluated \cup {Head(new_orders)}
        /\ DisplaySummary
        /\ UNCHANGED <<probeVars, clock, webVars, program, monitorVars, new_orders, last_call, historyVars, settings,
                       follower_clients, trackerVars, placements, eval_order,
                       eval_quantity, sessionVars>>

\* start_monitoring: KeyboardInterrupt ends the loop, and _display_summary
\* reads the statistics.
Interrupt ==
    /\ program = "copy" /\ pc \in {"polling", "copying"}
    /\ pc' = "stopped"
    /\ last_op' = "interrupt"
    /\ DisplaySummary
    /\ UNCHANGED <<probeVars, clock, webVars, program, monitorVars, new_orders, last_call, historyVars, settings,
                   copyVars, eval_order, eval_quantity, sessionVars>>

\* ------------------------------------------------- the placement request

\* A Python value of an order field that is read as a number or as text: a
\* str, an int, a float (kept as its repr) or None.
StrValue(text) == [t |-> "str", s |-> text, n |-> 0]
IntValue(number) == [t |-> "int", s |-> "", n |-> number]
FloatValue(repr) == [t |-> "float", s |-> repr, n |-> 0]
NoneValue == [t |-> "none", s |-> "", n |-> 0]

Digit == <<"0", "1", "2", "3", "4", "5", "6", "7", "8", "9">>

\* str(n) of an int n >= 0
RECURSIVE IntStr(_)
IntStr(n) == IF n < 10 THEN Digit[n + 1] ELSE IntStr(n \div 10) \o Digit[(n % 10) + 1]

\* The quantities an order carries.
Quantities == 0..200

\* str(v)
PyStr(v) ==
    CASE v.t = "str" -> v.s
      [] v.t = "int" -> IntStr(v.n)
      [] v.t = "float" -> v.s
      [] OTHER -> "None"

\* int(v) of an int, or of a str that spells one
PyInt(v) ==
    IF v.t = "int" THEN v.n ELSE CHOOSE number \in Quantities : IntStr(number) = v.s

\* `if v`
PyTruthy(v) ==
    CASE v.t = "str" -> v.s # ""
      [] v.t = "int" -> v.n # 0
      [] v.t = "float" -> v.s \notin {"0.0", "-0.0"}
      [] OTHER -> FALSE

\* dict.get(key, default)
Get(dict, key, default) == IF key \in DOMAIN dict THEN dict[key] ELSE default

\* A request that always carries a trigger price.
order_params_with_trigger(master_order, follower_qty) ==
    [variety         |-> Get(master_order, "variety", "NORMAL"),
     tradingsymbol   |-> Get(master_order, "tradingsymbol", None),
     symboltoken     |-> Get(master_order, "symboltoken", None),
     transactiontype |-> Get(master_order, "transactiontype", None),
     exchange        |-> Get(master_order, "exchange", None),
     ordertype       |-> Get(master_order, "ordertype", None),
     producttype     |-> Get(master_order, "producttype", None),
     duration        |-> Get(master_order, "duration", "DAY"),
     price           |-> PyStr(Get(master_order, "price", StrValue("0"))),
     squareoff       |-> "0",
     stoploss        |-> "0",
     quantity        |-> IntStr(follower_qty),
     triggerprice    |-> PyStr(Get(master_order, "triggerprice", NoneValue))]

\* _copy_to_single_follower: order_params, as place_order is given it.
order_params(master_order, follower_qty) ==
    LET params ==
            [variety         |-> Get(master_order, "variety", "NORMAL"),
             tradingsymbol   |-> Get(master_order, "tradingsymbol", None),
             symboltoken     |-> Get(master_order, "symboltoken", None),
             transactiontype |-> Get(master_order, "transactiontype", None),
             exchange        |-> Get(master_order, "exchange", None),
             ordertype       |-> Get(master_order, "ordertype", None),
             producttype     |-> Get(master_order, "producttype", None),
             duration        |-> Get(master_order, "duration", "DAY"),
             price           |-> PyStr(Get(master_order, "price", StrValue("0"))),
             squareoff       |-> "0",
             stoploss        |-> "0",
             quantity        |-> IntStr(follower_qty)]
    IN  IF PyTruthy(Get(master_order, "triggerprice", NoneValue))
        THEN params @@ ("triggerprice" :> PyStr(master_order.triggerprice))
        ELSE params

\* The master orders a request is built from: the fields the broker always
\* sends, and variety, duration, price and triggerprice present or not.
RequiredFields ==
    [tradingsymbol : {"NIFTY"}, symboltoken : {"12345"}, transactiontype : {"BUY", "SELL"},
     exchange : {"NFO"}, ordertype : {"MARKET", "LIMIT"}, producttype : {"INTRADAY"},
     quantity : {StrValue("50"), IntValue(75)}]
Absent == <<>>
Optional(key, values) == {Absent} \cup {key :> v : v \in values}
MasterOrders ==
    {r @@ v @@ d @@ p @@ t :
        r \in RequiredFields,
        v \in Optional("variety", {"NORMAL", "STOPLOSS"}),
        d \in Optional("duration", {"DAY", "IOC"}),
        p \in Optional("price", {StrValue("150.50"), IntValue(150), FloatValue("150.5")}),
        t \in Optional("triggerprice", {FloatValue("0.0"), FloatValue("148.5"), IntValue(0),
                                         StrValue(""), StrValue("148"), NoneValue})}

\* _copy_to_single_follower up to the call of place_order.
BuildOrderParams ==
    /\ program = "params" /\ pc = "ready"
    /\ pc' = "done"
    /\ last_op' = "order_params"
    /\ eval_result' =
           LET master_qty == PyInt(Get(eval_order, "quantity", IntValue(0)))
           IN  order_params(eval_order, calculate_follower_quantity(master_qty, settings))
    /\ UNCHANGED <<restVars, program, monitorVars, new_orders, last_call, historyVars, settings,
                   copyVars, eval_order, eval_quantity, sessionVars>>

\* ------------------------------------------------- the settings functions, applied

EvalShouldCopyOrder ==
    /\ program = "filter" /\ pc = "ready"
    /\ eval_result' = should_copy_order(eval_order, settings)
    /\ pc' = "done"
    /\ last_op' = "should_copy_order"
    /\ UNCHANGED <<restVars, program, monitorVars, new_orders, last_call, historyVars, settings,
                   copyVars, eval_order, eval_quantity, sessionVars>>

EvalCalculateFollowerQuantity ==
    /\ program = "quantity" /\ pc = "ready"
    /\ eval_result' = calculate_follower_quantity(eval_quantity, settings)
    /\ pc' = "done"
    /\ last_op' = "calculate_follower_quantity"
    /\ UNCHANGED <<restVars, program, monitorVars, new_orders, last_call, historyVars, settings,
                   copyVars, eval_order, eval_quantity, sessionVars>>

\* ------------------------------------------------- MultiAccountClient

Master == "Master"
Accounts == {Master, Followers[1], Followers[2]}

\* MultiAccountClient.__init__
NewClient ==
    [is_initialized |-> FALSE, session_data |-> NoValue, feed_token |-> NoValue,
     session_time |-> NoValue]

\* What one login attempt may do: generateSession and getfeedToken return;
\* generateSession raises a throttling-class error ('access rate' / 'access
\* denied'); it raises another error; it returns and getfeedToken raises
\* another error.
LoginKinds == {"ok", "throttled", "error", "token_error"}
\* What each attempt of one initialize_session call would do, were it made.
LoginOutcomes == [1..session_max_retries -> LoginKinds]

NoSession ==
    [account |-> None, outcomes |-> <<>>, result |-> "none", logins |-> 0, waits |-> <<>>]

\* A retry test that takes every error for a throttling one.
RetryableAny(kind) == kind # "ok"
\* `'access rate' in error_msg or 'access denied' in error_msg`
Retryable(kind) == kind = "throttled"

\* A wait that does not grow with the attempts.
WaitTimeFlat(retry_count) == base_delay
\* `wait_time = base_delay * retry_count`
WaitTime(retry_count) == base_delay * retry_count

\* The `while retry_count < max_retries` loop from its pass number
\* retry_count + 1 on; `count` logins were made for the account before the
\* call.  The n-th login of an account returns the session data n.
RECURSIVE LoginLoop(_, _, _, _)
LoginLoop(client, outcomes, retry_count, count) ==
    IF retry_count >= session_max_retries
    THEN [client |-> client, result |-> "failure", logins |-> retry_count, waits |-> <<>>]
    ELSE LET kind == outcomes[retry_count + 1]
             n    == count + retry_count + 1
         IN  IF kind = "ok"
             THEN [client |-> [is_initialized |-> TRUE, session_data |-> n,
                               feed_token |-> n, session_time |-> n],
                   result |-> "success", logins |-> retry_count + 1, waits |-> <<>>]
             ELSE LET seen == IF kind = "token_error"
                              THEN [client EXCEPT !.session_data = n] ELSE client
                  IN  IF Retryable(kind)
                      THEN IF retry_count + 1 < session_max_retries
                           THEN LET rest == LoginLoop(seen, outcomes, retry_count + 1, count)
                                IN  [rest EXCEPT !.waits = <<WaitTime(retry_count + 1)>> \o @]
                           ELSE [client |-> seen, result |-> "failure",
                                 logins |-> retry_count + 1, waits |-> <<>>]
                      ELSE [client |-> seen, result |-> "failure",
                            logins |-> retry_count + 1, waits |-> <<>>]

\* A session initialization that logs in whether or not a session exists.
initialize_session_unguarded(client, outcomes, count) ==
    LoginLoop(client, outcomes, 0, count)

\* MultiAccountClient.initialize_session
initialize_session(client, outcomes, count) ==
    IF client.is_initialized
    THEN [client |-> client, result |-> "success", logins |-> 0, waits |-> <<>>]
    ELSE LoginLoop(client, outcomes, 0, count)

\* The record of an initialize_session call.
SessionCall(account, outcomes, call) ==
    [account |-> account, outcomes |-> outcomes, result |-> call.result,
     logins |-> call.logins, waits |-> call.waits]

\* initialize_session called on the account's client, at any time.
InitializeSession(outcomes) ==
    LET call == initialize_session(sessions[Master], outcomes, login_count[Master])
    IN  /\ program = "session" /\ pc = "ready"
        /\ login_count[Master] < MaxLogins
        /\ last_op' = "initialize_session"
        /\ sessions' = [sessions EXCEPT ![Master] = call.client]
        /\ last_session' = SessionCall(Master, outcomes, call)
        /\ login_count' = [login_count EXCEPT ![Master] = @ + call.logins]
        /\ UNCHANGED <<restVars, program, pc, monitorVars, new_orders, last_call, historyVars,
                       settings, copyVars, evalVars, config_followers, init_trace>>

\* SmartAPIClient(): __init__ reuses the session of the singleton when there
\* is one; else _initialize_session runs the same loop and raises where
\* initialize_session returns False.
SmartAPIClientInit(outcomes) ==
    LET call == initialize_session(sessions[Master], outcomes, login_count[Master])
    IN  /\ program = "singleton" /\ pc = "ready"
        /\ login_count[Master] < MaxLogins
        /\ last_op' = "initialize_session"
        /\ sessions' = [sessions EXCEPT ![Master] =
                            IF call.result = "success" THEN call.client
                            ELSE [call.client EXCEPT !.session_time = NoValue]]
        /\ last_session' =
               SessionCall(Master, outcomes,
                           [call EXCEPT !.result = IF @ = "failure" THEN "raised" ELSE @])
        /\ login_count' = [login_count EXCEPT ![Master] = @ + call.logins]
        /\ UNCHANGED <<restVars, program, pc, monitorVars, new_orders, last_call, historyVars,
                       settings, copyVars, evalVars, config_followers, init_trace>>

\* ------------------------------------------------- ClientManager

InitEvent(account, result) ==
    [op |-> "initialize", account |-> account, result |-> result, seconds |-> 0]
WaitEvent(seconds) ==
    [op |-> "wait", account |-> None, result |-> "none", seconds |-> seconds]

\* An initialization that does not pause between accounts.
NoWaitBefore(trace) == trace
\* `time.sleep(self.initialization_delay)`
WaitBefore(trace) == Append(trace, WaitEvent(initialization_delay))

\* A manager that goes on without its master session.
MasterOptional(result) == FALSE
\* `if not self.master_client.initialize_session(): raise Exception(...)`
MasterRequired(result) == result # "success"

\* A manager that keeps a follower whatever its initialization returned.
AdmittedAlways(result) == TRUE
\* `if follower_client.initialize_session(): self.follower_clients.append(...)`
Admitted(result) == result = "success"

\* The sessions of a manager whose master and `followers` have logged in once.
SessionsOf(followers) ==
    [a \in Accounts |->
        IF a = Master \/ \E i \in DOMAIN followers : followers[i] = a
        THEN [is_initialized |-> TRUE, session_data |-> 1, feed_token |-> 1,
              session_time |-> 1]
        ELSE NewClient]
NoSessions == [a \in Accounts |-> NewClient]

\* The followers initialize_clients has dealt with so far.
FollowersDone ==
    Len(SelectSeq(init_trace, LAMBDA e : e.op = "initialize" /\ e.account # Master))

\* initialize_clients up to the follower loop: the master session, then the
\* wait before the first follower.
InitializeMaster(outcomes) ==
    LET call == initialize_session(NewClient, outcomes, login_count[Master])
        failed == MasterRequired(call.result)
        trace == Append(init_trace, InitEvent(Master, call.result))
    IN  /\ program = "copy" /\ pc = "constructing"
        /\ last_op' = "initialize_clients"
        /\ sessions' = [sessions EXCEPT ![Master] = call.client]
        /\ last_session' = SessionCall(Master, outcomes, call)
        /\ login_count' = [login_count EXCEPT ![Master] = @ + call.logins]
        /\ init_trace' = IF ~failed /\ config_followers # <<>>
                         THEN WaitBefore(trace) ELSE trace
        /\ pc' = IF failed THEN "failed"
                 ELSE IF config_followers # <<>> THEN "followers" ELSE "seeding"
        /\ UNCHANGED <<restVars, program, monitorVars, new_orders, last_call, historyVars,
                       settings, copyVars, evalVars, config_followers>>

\* One pass of the follower loop of initialize_clients; after the last one
\* initialize_clients returns and __init__ goes on to seed the known orders.
InitializeFollower(outcomes) ==
    LET idx == FollowersDone
        account == config_followers[idx + 1]
        call == initialize_session(NewClient, outcomes, login_count[account])
        waited == IF idx > 0 THEN WaitBefore(init_trace) ELSE init_trace
    IN  /\ program = "copy" /\ pc = "followers"
        /\ last_op' = "initialize_clients"
        /\ sessions' = [sessions EXCEPT ![account] = call.client]
        /\ last_session' = SessionCall(account, outcomes, call)
        /\ login_count' = [login_count EXCEPT ![account] = @ + call.logins]
        /\ init_trace' = Append(waited, InitEvent(account, call.result))
        /\ follower_clients' = IF Admitted(call.result)
                               THEN Append(follower_clients, account) ELSE follower_clients
        /\ pc' = IF idx + 1 = Len(config_followers) THEN "seeding" ELSE "followers"
        /\ UNCHANGED <<restVars, program, monitorVars, new_orders, last_call, historyVars,
                       settings, trackerVars, placements, evaluated, evalVars,
                       config_followers>>

\* ------------------------------------------------- web_ui

\* What the threads of web_ui leave alone: the state of the other programs.
nonWebVars == <<program, pc, monitorVars, new_orders, last_call, historyVars, settings,
                copyVars, evalVars, sessionVars, probeVars, fileVars, clock>>

\* The threads inside monitor.start().
Monitoring == {t \in DOMAIN thread_pc : thread_pc[t] \in {"sleeping", "polling"}}

\* start_monitor, the handler of POST /api/start: a thread running
\* start_monitoring is started unless monitoring_status['running'] is set.
StartMonitor ==
    /\ program = "web"
    /\ thread_pc["request"] = "idle"
    /\ last_op' = (IF running THEN "already_running" ELSE "api_start")
    /\ thread_pc' = IF running THEN thread_pc
                    ELSE [thread_pc EXCEPT !["request"] = "constructing"]
    /\ UNCHANGED <<nonWebVars, instance, session_initialized, thread_client, generated,
                   running>>

\* SmartAPIClient.__new__, the test `cls._instance is None`.
ClientNew(t) ==
    /\ program = "web"
    /\ thread_pc[t] = "constructing"
    /\ last_op' = "new"
    /\ thread_pc' = [thread_pc EXCEPT ![t] = IF instance = 0 THEN "creating" ELSE "init"]
    /\ thread_client' = IF instance = 0 THEN thread_client
                        ELSE [thread_client EXCEPT ![t] = instance]
    /\ UNCHANGED <<nonWebVars, instance, session_initialized, generated, running>>

\* SmartAPIClient.__new__, `cls._instance = super().__new__(cls)` and the
\* return: the objects are numbered in the order of their creation.
ClientCreate(t) ==
    /\ program = "web"
    /\ thread_pc[t] = "creating"
    /\ last_op' = "create"
    /\ instance' = instance + 1
    /\ thread_client' = [thread_client EXCEPT ![t] = instance + 1]
    /\ thread_pc' = [thread_pc EXCEPT ![t] = "init"]
    /\ UNCHANGED <<nonWebVars, session_initialized, generated, running>>

\* SmartAPIClient.__init__, the test `if self._session_initialized`.
ClientInit(t) ==
    /\ program = "web"
    /\ thread_pc[t] = "init"
    /\ last_op' = "init_client"
    /\ thread_pc' = [thread_pc EXCEPT ![t] = IF session_initialized THEN "seeding"
                                              ELSE "login"]
    /\ UNCHANGED <<nonWebVars, instance, session_initialized, thread_client, generated,
                   running>>

\* SmartAPIClient.__init__ from _initialize_session on: the logins, then
\* `_session_initialized = True`; an error of _initialize_session reaches
\* `except Exception` of start_monitoring, which ends the thread.
ClientLogin(t, outcomes) ==
    LET login == LoginLoop(NewClient, outcomes, 0, 0)
        success == login.result = "success"
    IN  /\ program = "web"
        /\ thread_pc[t] = "login"
        /\ last_op' = "login"
        /\ generated' = IF success THEN generated + 1 ELSE generated
        /\ session_initialized' = (session_initialized \/ success)
        /\ running' = (running /\ success)
        /\ thread_pc' = [thread_pc EXCEPT ![t] = IF success THEN "seeding" ELSE "ended"]
        /\ UNCHANGED <<nonWebVars, instance, thread_client>>

\* `monitor = UIOrderMonitor(client)`: the constructor fetches the seed
\* snapshot.
MonitorCreate(t) ==
    /\ program = "web"
    /\ thread_pc[t] = "seeding"
    /\ last_op' = "seed"
    /\ thread_pc' = [thread_pc EXCEPT ![t] = "starting"]
    /\ UNCHANGED <<nonWebVars, instance, session_initialized, thread_client, generated,
                   running>>

\* `monitoring_status['running'] = True`, then monitor.start() up to its loop.
MonitorStart(t) ==
    /\ program = "web"
    /\ thread_pc[t] = "starting"
    /\ last_op' = "start"
    /\ running' = TRUE
    /\ thread_pc' = [thread_pc EXCEPT ![t] = "sleeping"]
    /\ UNCHANGED <<nonWebVars, instance, session_initialized, thread_client, generated>>

\* The loop of monitor.start(): check_for_new_orders sends its order-book
\* call.
PollBegin(t) ==
    /\ program = "web"
    /\ thread_pc[t] = "sleeping"
    /\ last_op' = "poll"
    /\ thread_pc' = [thread_pc EXCEPT ![t] = "polling"]
    /\ UNCHANGED <<nonWebVars, instance, session_initialized, thread_client, generated,
                   running>>

\* The order-book call has ended, and the loop sleeps.
PollEnd(t) ==
    /\ program = "web"
    /\ thread_pc[t] = "polling"
    /\ last_op' = "polled"
    /\ thread_pc' = [thread_pc EXCEPT ![t] = "sleeping"]
    /\ UNCHANGED <<nonWebVars, instance, session_initialized, thread_client, generated,
                   running>>

\* ---------------------------------------------------------- specification

NoOrder == [tradingsymbol |-> "", ordertype |-> ""]

Idle ==
    /\ known_order_ids = {}
    /\ attempt = 0
    /\ api_calls_count = 0
    /\ api_calls_window_start = now
    /\ consecutive_rate_limits = 0
    /\ backoff_until = NoValue
    /\ new_orders = <<>>
    /\ last_op = "init"
    /\ last_call = NoCall
    /\ seed_ids = {}
    /\ new_count = [id \in OrderIdValues |-> 0]
    /\ throttle_run = 0
    /\ recovered = FALSE
    /\ seen_again = {}
    /\ skipped = {}
    /\ last_fresh = <<>>
    /\ known_master_orders = {}
    /\ copy_records = <<>>
    /\ failed_copies = <<>>
    /\ placements = <<>>
    /\ evaluated = {}
    /\ eval_result = NoValue
    /\ last_session = NoSession
    /\ login_count = [a \in Accounts |-> 0]
    /\ init_trace = <<>>
    /\ window_calls = 0
    /\ start_ids = {}
    /\ completed_later = {}
    /\ saved = <<>>

\* The threads of web_ui: the one __main__ starts and the one /api/start starts.
Threads == {"auto", "request"}

\* No thread of web_ui runs.
NoWeb ==
    /\ thread_pc = [t \in Threads |-> "idle"]
    /\ instance = 0
    /\ session_initialized = FALSE
    /\ thread_client = [t \in Threads |-> 0]
    /\ generated = 0
    /\ running = FALSE

NoClock == [weekday |-> 0, hour |-> 0, minute |-> 0, second |-> 0, microsecond |-> 0]

\* A behaviour of one program on a set-up that validate_setup has checked,
\* with no history of the order books and of the clock.
Plain ==
    /\ tick_calls = NoValue
    /\ idless = NoValue
    /\ fetched = "off"
    /\ logs_dir = TRUE
    /\ clock = NoClock
    /\ NoWeb

NoEval == eval_order = NoOrder /\ eval_quantity = 0

\* The monitoring programs, on every order book the broker may return: the
\* SmartPollingMonitor loop outside market hours, the PollingOrderMonitor loop
\* and the copy trader with its default settings.  The history of the order
\* books is kept.
Programs == {"smart", "polling", "copy"}

Init ==
    /\ program \in Programs
    /\ pc = "seeding"
    /\ settings = DefaultSettings
    /\ follower_clients = (IF program = "copy" THEN Followers ELSE <<>>)
    /\ config_followers = follower_clients
    /\ sessions = (IF program = "copy" THEN SessionsOf(follower_clients) ELSE NoSessions)
    /\ Idle /\ NoEval
    /\ tick_calls = NoValue
    /\ idless = 0
    /\ fetched = "off"
    /\ logs_dir = TRUE
    /\ clock = NoClock
    /\ NoWeb

Next ==
    \/ \E out \in MonitorOutcomes : SmartInitializeKnownOrders(out)
    \/ \E out \in MonitorOutcomes : SmartCheckForNewOrders(out)
    \/ Sleep(off_hours_interval)
    \/ SmartInterrupt
    \/ \E out \in MonitorOutcomes : PollingInitializeKnownOrders(out)
    \/ \E out \in MonitorOutcomes : PollingCheckForNewOrders(out)
    \/ \E out \in FetchOutcomes : CopyInitializeKnownOrders(out)
    \/ \E out \in FetchOutcomes : CopyCheckForNewOrders(out)
    \/ \E outcome \in [{Followers[1], Followers[2]} -> PlaceOutcomes] :
           CopyOrderToFollowers(outcome, TRUE)

Spec == Init /\ [][Next]_vars

\* A SmartPollingMonitor whose check_for_new_orders is called at any pace,
\* on an order book that is empty or holds one order.
RateOutcomes ==
    {[kind |-> k, data |-> <<>>] : k \in {"Data", "RateError", "OtherError"}}
    \cup {[kind |-> "Data", data |-> <<[orderid |-> "A", status |-> "complete"]>>]}

InitRate ==
    /\ program = "direct"
    /\ pc = "seeding"
    /\ settings = DefaultSettings
    /\ follower_clients = <<>>
    /\ config_followers = <<>>
    /\ sessions = NoSessions
    /\ Idle /\ NoEval /\ Plain

NextRate ==
    \/ \E out \in RateOutcomes : SmartInitializeKnownOrders(out)
    \/ \E out \in RateOutcomes : SmartCheckForNewOrders(out)
    \/ \E d \in Delays : Sleep(d)

SpecRate == InitRate /\ [][NextRate]_vars

\* The copy trader under each of a few settings.
SessionSettings ==
    {DefaultSettings,
     [DefaultSettings EXCEPT !.blocked_symbols = {"FINNIFTY"}],
     [DefaultSettings EXCEPT !.dry_run = TRUE],
     [DefaultSettings EXCEPT !.require_confirmation = TRUE],
     [DefaultSettings EXCEPT !.quantity_multiplier = [num |-> 1, den |-> 2]]}

InitCopy ==
    /\ program = "copy"
    /\ pc = "seeding"
    /\ settings \in SessionSettings
    /\ follower_clients \in FollowerLists
    /\ config_followers = follower_clients
    /\ sessions = SessionsOf(follower_clients)
    /\ Idle /\ NoEval /\ Plain

NextCopy ==
    \/ \E out \in FetchOutcomes : CopyInitializeKnownOrders(out)
    \/ \E out \in FetchOutcomes : CopyCheckForNewOrders(out)
    \/ \E outcome \in [{Followers[1], Followers[2]} -> PlaceOutcomes], confirmed \in BOOLEAN :
           CopyOrderToFollowers(outcome, confirmed)
    \/ Interrupt

SpecCopy == InitCopy /\ [][NextCopy]_vars

\* The settings functions on every order and every settings object of the
\* bounded sets.
FilterSettings ==
    {[DefaultSettings EXCEPT !.copy_all_orders = c, !.allowed_symbols = a,
                             !.blocked_symbols = b, !.copy_market_orders = m,
                             !.copy_limit_orders = l, !.copy_stop_orders = t] :
        c \in BOOLEAN, a \in SUBSET Symbols, b \in SUBSET Symbols,
        m \in BOOLEAN, l \in BOOLEAN, t \in BOOLEAN}
QuantitySettings ==
    {[DefaultSettings EXCEPT !.use_fixed_quantity = u, !.fixed_quantity = f,
                             !.quantity_multiplier = q] :
        u \in BOOLEAN, f \in FixedQuantities, q \in Multipliers}

InitSettings ==
    /\ pc = "ready"
    /\ follower_clients = <<>>
    /\ config_followers = <<>>
    /\ sessions = NoSessions
    /\ Idle /\ Plain
    /\ \/ /\ program = "filter"
          /\ settings \in FilterSettings
          /\ eval_order \in [tradingsymbol : OrderSymbols, ordertype : OrderTypes]
          /\ eval_quantity = 0
       \/ /\ program = "quantity"
          /\ settings \in QuantitySettings
          /\ eval_order = NoOrder
          /\ eval_quantity \in MasterQuantities

NextSettings == EvalShouldCopyOrder \/ EvalCalculateFollowerQuantity

SpecSettings == InitSettings /\ [][NextSettings]_vars

\* One account's session, initialized again and again on any login outcomes:
\* MultiAccountClient.initialize_session and the SmartAPIClient singleton.
InitSession ==
    /\ program \in {"session", "singleton"}
    /\ pc = "ready"
    /\ settings = DefaultSettings
    /\ follower_clients = <<>>
    /\ config_followers = <<>>
    /\ sessions = NoSessions
    /\ Idle /\ NoEval /\ Plain

NextSession ==
    \/ \E outcomes \in LoginOutcomes : InitializeSession(outcomes)
    \/ \E outcomes \in LoginOutcomes : SmartAPIClientInit(outcomes)

SpecSession == InitSession /\ [][NextSession]_vars

\* A whole run of the copy trader: MultiAccountCopyTrader.__init__
\* (initialize_clients, then the seed snapshot) and start_monitoring, with no,
\* one or two followers configured.  Every login attempt of an account ends
\* the same way.
RunLoginOutcomes ==
    {[k \in 1..session_max_retries |-> kind] : kind \in {"ok", "throttled", "error"}}

InitRun ==
    /\ program = "copy"
    /\ pc = "constructing"
    /\ settings \in {DefaultSettings, [DefaultSettings EXCEPT !.dry_run = TRUE]}
    /\ follower_clients = <<>>
    /\ config_followers \in {<<>>, <<Followers[1]>>, Followers}
    /\ sessions = NoSessions
    /\ Idle /\ NoEval /\ Plain

NextRun ==
    \/ \E outcomes \in RunLoginOutcomes : InitializeMaster(outcomes)
    \/ \E outcomes \in RunLoginOutcomes : InitializeFollower(outcomes)
    \/ \E out \in FetchOutcomes : CopyInitializeKnownOrders(out)
    \/ \E out \in FetchOutcomes : CopyCheckForNewOrders(out)
    \/ \E outcome \in [{Followers[1], Followers[2]} -> PlaceOutcomes] :
           CopyOrderToFollowers(outcome, TRUE)
    \/ CopyOrderRaises
    \/ Interrupt

SpecRun == InitRun /\ [][NextRun]_vars

\* The three monitors, with the history of how each fetch ended.
InitFetch ==
    /\ program \in Programs
    /\ pc = "seeding"
    /\ settings = DefaultSettings
    /\ follower_clients = (IF program = "copy" THEN Followers ELSE <<>>)
    /\ config_followers = follower_clients
    /\ sessions = (IF program = "copy" THEN SessionsOf(follower_clients) ELSE NoSessions)
    /\ Idle /\ NoEval
    /\ tick_calls = NoValue
    /\ idless = NoValue
    /\ fetched = "None"
    /\ logs_dir = TRUE
    /\ clock = NoClock
    /\ NoWeb

SpecFetch == InitFetch /\ [][Next]_vars

\* The copy trader with one follower, with and without the confirmation
\* prompt, in a session nobody interrupts. The program's own steps are taken
\* when they can be; the user's answer to the prompt comes from outside, when
\* it comes.
InitPrompt ==
    /\ program = "copy"
    /\ pc = "seeding"
    /\ settings \in {DefaultSettings, [DefaultSettings EXCEPT !.require_confirmation = TRUE]}
    /\ follower_clients = <<Followers[1]>>
    /\ config_followers = follower_clients
    /\ sessions = SessionsOf(follower_clients)
    /\ Idle /\ NoEval /\ Plain

NextPrompt ==
    \/ \E out \in FetchOutcomes : CopyInitializeKnownOrders(out)
    \/ \E out \in FetchOutcomes : CopyCheckForNewOrders(out)
    \/ \E outcome \in [{Followers[1], Followers[2]} -> PlaceOutcomes] :
           CopyWithoutConfirmation(outcome)
    \/ \E outcome \in [{Followers[1], Followers[2]} -> PlaceOutcomes], confirmed \in BOOLEAN :
           AnswerConfirmation(outcome, confirmed)

\* Where the loop is: a step of the program moves it on.
position == <<pc, new_orders, last_op>>

FairPrompt ==
    /\ WF_position(\E out \in FetchOutcomes : CopyInitializeKnownOrders(out))
    /\ WF_position(\E out \in FetchOutcomes : CopyCheckForNewOrders(out))
    /\ WF_position(\E outcome \in [{Followers[1], Followers[2]} -> PlaceOutcomes] :
                      CopyWithoutConfirmation(outcome))

SpecPrompt == InitPrompt /\ [][NextPrompt]_vars /\ FairPrompt

\* The placement request for every master order and quantity rule of the
\* bounded sets.
InitParams ==
    /\ program = "params"
    /\ pc = "ready"
    /\ settings \in {DefaultSettings,
                      [DefaultSettings EXCEPT !.use_fixed_quantity = TRUE, !.fixed_quantity = 25],
                      [DefaultSettings EXCEPT !.quantity_multiplier = [num |-> 1, den |-> 2]]}
    /\ follower_clients = <<>>
    /\ config_followers = <<>>
    /\ sessions = NoSessions
    /\ Idle /\ Plain
    /\ eval_order \in MasterOrders
    /\ eval_quantity = 0

NextParams == BuildOrderParams

SpecParams == InitParams /\ [][NextParams]_vars

\* _adaptive_interval at every time of a set of times of the week.
InitHours ==
    /\ program = "hours"
    /\ pc = "ready"
    /\ settings = DefaultSettings
    /\ follower_clients = <<>>
    /\ config_followers = <<>>
    /\ sessions = NoSessions
    /\ Idle /\ NoEval
    /\ tick_calls = NoValue
    /\ idless = NoValue
    /\ fetched = "off"
    /\ logs_dir = TRUE
    /\ clock \in Clocks
    /\ NoWeb

NextHours == EvalAdaptiveInterval

SpecHours == InitHours /\ [][NextHours]_vars

\* web_ui run as a script: __main__ has started the thread that runs
\* start_monitoring, and the server takes requests.
InitWeb ==
    /\ program = "web"
    /\ pc = "serving"
    /\ settings = DefaultSettings
    /\ follower_clients = <<>>
    /\ config_followers = <<>>
    /\ sessions = NoSessions
    /\ Idle /\ NoEval
    /\ tick_calls = NoValue
    /\ idless = NoValue
    /\ fetched = "off"
    /\ logs_dir = TRUE
    /\ clock = NoClock
    /\ thread_pc = [t \in Threads |-> IF t = "auto" THEN "constructing" ELSE "idle"]
    /\ instance = 0
    /\ session_initialized = FALSE
    /\ thread_client = [t \in Threads |-> 0]
    /\ generated = 0
    /\ running = FALSE

NextWeb ==
    \/ StartMonitor
    \/ \E t \in Threads : ClientNew(t)
    \/ \E t \in Threads : ClientCreate(t)
    \/ \E t \in Threads : ClientInit(t)
    \/ \E t \in Threads, outcomes \in RunLoginOutcomes : ClientLogin(t, outcomes)
    \/ \E t \in Threads : MonitorCreate(t)
    \/ \E t \in Threads : MonitorStart(t)
    \/ \E t \in Threads : PollBegin(t)
    \/ \E t \in Threads : PollEnd(t)

SpecWeb == InitWeb /\ [][NextWeb]_vars

\* The loop of start_monitoring followed on its clock, with one follower, on
\* a set-up that may lack the logs/ directory.
InitLoop ==
    /\ program = "copy"
    /\ pc = "seeding"
    /\ settings = DefaultSettings
    /\ follower_clients = <<Followers[1]>>
    /\ config_followers = follower_clients
    /\ sessions = SessionsOf(follower_clients)
    /\ Idle /\ NoEval
    /\ tick_calls = 0
    /\ idless = NoValue
    /\ fetched = "off"
    /\ logs_dir \in BOOLEAN
    /\ clock = NoClock
    /\ NoWeb

NextLoop ==
    \/ \E out \in RateOutcomes : CopyInitializeKnownOrders(out)
    \/ \E out \in RateOutcomes : CopyCheckForNewOrders(out)
    \/ \E outcome \in [{Followers[1], Followers[2]} -> PlaceOutcomes] :
           CopyOrderToFollowers(outcome, TRUE)
    \/ Interrupt

SpecLoop == InitLoop /\ [][NextLoop]_vars

\* ------------------------------------------------------------- properties

\* C1: in one monitoring session each order id is reported as new at most
\* once, by every monitor's check_for_new_orders and by
\* OrderTracker.is_new_order: once a poll has reported it, no later poll does.
C1_ReportedAtMostOnce == \A id \in OrderIds : new_count[id] <= 1

\* An id that was reported once is in the order book of a later check.
C1_Witness ==
    /\ last_op = "check"
    /\ \E id \in OrderIds : new_count[id] = 1 /\ id \in seen_again /\ id \notin seed_ids

\* C2: an order id of the seed snapshot fetched at construction is never
\* reported as new by a later check_for_new_orders.
C2_SeedNeverNew == \A id \in seed_ids : new_count[id] = 0

\* A check whose order book shows an id of the seed snapshot.
C2_Witness ==
    /\ last_op = "check"
    /\ \E id \in seed_ids \cap OrderIds : id \in seen_again /\ new_count[id] = 0

\* C3: for every master order id and every follower at most one placement
\* request is submitted and at most one CopyRecord is appended, however many
\* later snapshots show the order.
C3_OneCopyPerFollower ==
    \A id \in OrderIds, f \in {Followers[1], Followers[2]} :
        /\ Cardinality({i \in DOMAIN placements :
               placements[i].master_order_id = id /\ placements[i].follower = f}) <= 1
        /\ Cardinality({i \in DOMAIN copy_records :
               copy_records[i].master_order_id = id /\ copy_records[i].follower = f}) <= 1

\* A check whose order book shows an order that was copied after an earlier one.
C3_Witness ==
    /\ last_op = "check"
    /\ \E id \in seen_again :
           /\ \E i \in DOMAIN placements : placements[i].master_order_id = id
           /\ \E i \in DOMAIN copy_records : copy_records[i].master_order_id = id

\* C4: of the orders first seen in a poll, MultiAccountCopyTrader's
\* check_for_new_orders returns exactly the complete ones, and only those are
\* passed to should_copy_order; a first-seen order of another status becomes
\* known and is never evaluated, placed or recorded.
C4_OnlyCompleteCopied ==
    /\ last_op = "check" =>
           /\ new_orders = SelectSeq(last_fresh, LAMBDA o : o.status = "complete")
           /\ \A i \in DOMAIN last_fresh : last_fresh[i].orderid \in known_master_orders
    /\ \A o \in evaluated : o.status = "complete"
    /\ \A id \in skipped :
           /\ id \in known_master_orders
           /\ \A o \in evaluated : o.orderid # id
           /\ \A i \in DOMAIN placements : placements[i].master_order_id # id
           /\ \A i \in DOMAIN copy_records : copy_records[i].master_order_id # id

\* A poll that saw two orders for the first time, one complete and one not,
\* and returned one.
C4_Witness ==
    /\ last_op = "check"
    /\ Len(last_fresh) = 2
    /\ Len(new_orders) = 1
    /\ skipped # {}

C7_FollowerQuantity ==
    (program = "quantity" /\ pc = "done") =>
        eval_result =
            IF settings.use_fixed_quantity /\ settings.fixed_quantity \notin {NoValue, 0}
            THEN settings.fixed_quantity
            ELSE (eval_quantity * settings.quantity_multiplier.num)
                     \div settings.quantity_multiplier.den

\* 100 with fixed quantity 25 gives 25.
C7_Witness ==
    /\ program = "quantity" /\ pc = "done"
    /\ settings.use_fixed_quantity /\ settings.fixed_quantity = 25
    /\ settings.quantity_multiplier = [num |-> 1, den |-> 2]
    /\ eval_quantity = 100
    /\ eval_result = 25

\* C8: when the call counter has reached max_calls_per_minute within the
\* current 60-second window, the next check_for_new_orders that is not in
\* backoff lets no order-book call proceed before the window has elapsed:
\* _check_rate_limit sleeps the remaining window time plus 1 second and
\* restarts the counter and the window, so the call made then is the first
\* of a new window; the check after such a wait does not wait.
C8_RateLimitWaits ==
    [][(last_op' = "check" /\ ~InBackoff) =>
          /\ (api_calls_count >= max_calls_per_minute
                  /\ now - api_calls_window_start < WindowSeconds) =>
                 /\ last_call'.called
                 /\ last_call'.waited = WindowSeconds - (now - api_calls_window_start) + 1
                 /\ api_calls_window_start' = now
                 /\ api_calls_count' = (IF last_call'.kind = "returned" THEN 1 ELSE 0)
          /\ (last_call.called /\ last_call.waited > 0) => last_call'.waited = 0
      ]_vars

\* A check that waited for the window to elapse before its order-book call.
C8_Witness ==
    /\ last_op = "check"
    /\ last_call.called /\ last_call.waited > WindowBuffer
    /\ api_calls_count = 1

\* C9: after the n-th throttling error in a row (none of the calls between
\* returned) backoff_until is now + min(60 * 2^(n-1), 300): 60, 120, 240,
\* and 300 from the 4th on.
C9_BackoffSchedule ==
    (last_op = "check" /\ last_call.called /\ last_call.kind = "RateError") =>
        /\ throttle_run >= 1
        /\ backoff_until = now + (CASE throttle_run = 1 -> 60
                                     [] throttle_run = 2 -> 120
                                     [] throttle_run = 3 -> 240
                                     [] OTHER -> 300)

\* The 5th throttling error in a row, backing off 300 seconds.
C9_Witness ==
    /\ last_op = "check" /\ last_call.called /\ last_call.kind = "RateError"
    /\ throttle_run = 5
    /\ backoff_until = now + 300

\* C10: every order-book call of check_for_new_orders that returns resets
\* consecutive_rate_limits to 0 and clears backoff_until, so the first
\* throttling error after a call that returned backs off 60 seconds.
C10_SuccessResetsBackoff ==
    /\ (last_op = "check" /\ last_call.called /\ last_call.kind = "returned") =>
           consecutive_rate_limits = 0 /\ backoff_until = NoValue
    /\ (last_op = "check" /\ last_call.called /\ last_call.kind = "RateError"
            /\ throttle_run = 1) =>
           consecutive_rate_limits = 1 /\ backoff_until = now + 60

\* A throttling error that follows a call that returned after earlier
\* throttling errors, backing off 60 seconds again.
C10_Witness ==
    /\ last_op = "check" /\ last_call.called /\ last_call.kind = "RateError"
    /\ recovered
    /\ throttle_run = 1
    /\ backoff_until = now + 60

\* C11: while now < backoff_until, check_for_new_orders returns an empty list
\* without calling the order-book API and leaves the known-order set, the
\* call counter and consecutive_rate_limits as they were.
C11_BackoffShortCircuits ==
    [][(last_op' = "check" /\ backoff_until # NoValue /\ now < backoff_until) =>
          /\ new_orders' = <<>>
          /\ ~last_call'.called
          /\ known_order_ids' = known_order_ids
          /\ api_calls_count' = api_calls_count
          /\ consecutive_rate_limits' = consecutive_rate_limits
          /\ backoff_until' = backoff_until
      ]_vars

\* A check made during a backoff that is still running after it.
C11_Witness ==
    /\ last_op = "check"
    /\ ~last_call.called
    /\ backoff_until # NoValue /\ now < backoff_until
    /\ consecutive_rate_limits >= 1

\* C12: get_statistics returns total = the number of copy records,
\* successful = the number of records whose success is true, failed = total -
\* successful, and success_rate = successful / total * 100, or 0 without
\* records; total = successful + failed after any sequence of record_copy calls.
C12_Statistics ==
    (program = "copy" /\ pc = "stopped" /\ last_op = "interrupt") =>
        LET total == Len(copy_records)
            successful == Cardinality({i \in DOMAIN copy_records : copy_records[i].success})
            rate == eval_result.success_rate
        IN  /\ eval_result.total_copies = total
            /\ eval_result.successful = successful
            /\ eval_result.failed = total - successful
            /\ eval_result.total_copies = eval_result.successful + eval_result.failed
            /\ rate.den > 0
            /\ total = 0 => rate.num = 0
            /\ total > 0 => rate.num * total = successful * 100 * rate.den

\* 3 successes and 1 failure give 4, 3, 1 and 75.
C12_Witness ==
    /\ program = "copy" /\ pc = "stopped" /\ last_op = "interrupt"
    /\ eval_result.total_copies = 4
    /\ eval_result.successful = 3
    /\ eval_result.failed = 1
    /\ eval_result.success_rate.num = 75 * eval_result.success_rate.den

C14_OtherErrorFailsAtOnce ==
    (last_op = "initialize_session" /\ last_session.logins > 0) =>
        \A k \in 1..session_max_retries :
            (/\ last_session.outcomes[k] \in {"error", "token_error"}
             /\ \A j \in 1..(k - 1) : last_session.outcomes[j] = "throttled")
            => /\ last_session.logins = k
               /\ Len(last_session.waits) = k - 1
               /\ last_session.result \in {"failure", "raised"}
               /\ ~sessions[last_session.account].is_initialized

\* A call whose second login attempt, made after one throttling-class
\* failure, met another error.
C14_Witness ==
    /\ last_op = "initialize_session"
    /\ last_session.logins = 2
    /\ last_session.outcomes[1] = "throttled"
    /\ last_session.outcomes[2] = "error"
    /\ last_session.outcomes[3] = "ok"
    /\ last_session.result = "failure"

\* C15: initialize_session on an account whose session is initialized makes
\* no login call, leaves session_data, feed_token and session_time as they
\* are and returns success.
C15_InitializedIsNoOp ==
    [][(program = "session" /\ last_op' = "initialize_session"
           /\ sessions[Master].is_initialized) =>
          /\ sessions' = sessions
          /\ login_count' = login_count
          /\ last_session'.logins = 0
          /\ last_session'.result = "success"
      ]_vars

\* A call on an initialized session.
C15_Witness ==
    /\ program = "session"
    /\ last_op = "initialize_session"
    /\ sessions[Master].is_initialized
    /\ sessions[Master].session_data = 1
    /\ last_session.logins = 0
    /\ last_session.result = "success"

\* C16: initialize_clients initializes the master session first and attempts
\* no follower login before the master login has succeeded; a wait of
\* initialization_delay (5 seconds) precedes every follower initialization,
\* and the followers are initialized one at a time in configuration order.
C16_MasterFirstThenFollowers ==
    LET inits == SelectSeq(init_trace, LAMBDA e : e.op = "initialize")
    IN  /\ init_trace # <<>> =>
               init_trace[1].op = "initialize" /\ init_trace[1].account = Master
        /\ \A i \in DOMAIN init_trace :
               (init_trace[i].op = "initialize" /\ init_trace[i].account # Master) =>
                   /\ i > 1
                   /\ init_trace[1].result = "success"
                   /\ init_trace[i - 1].op = "wait"
                   /\ init_trace[i - 1].seconds = 5
        /\ Len(inits) <= Len(config_followers) + 1
        /\ \A k \in 2..Len(inits) : inits[k].account = config_followers[k - 1]
        /\ \A f \in Accounts \ {Master} :
               login_count[f] > 0 => sessions[Master].is_initialized

\* Both followers initialized, each after its wait.
C16_Witness ==
    /\ pc = "seeding"
    /\ config_followers = Followers
    /\ Len(init_trace) = 5
    /\ init_trace[3].account = Followers[1]
    /\ init_trace[5].account = Followers[2]

\* C17: a follower whose initialize_session fails is left out of
\* follower_clients and the remaining followers are still initialized:
\* initialize_clients completes with the followers that succeeded, none
\* included, and with no active follower the copy step places no order and
\* appends no CopyRecord.
C17_FailedFollowerSkipped ==
    (program = "copy" /\ init_trace # <<>> /\ init_trace[1].result = "success") =>
        LET attempted == {init_trace[i].account : i \in DOMAIN init_trace} \ {None, Master}
            succeeded == {f \in attempted : sessions[f].is_initialized}
        IN  /\ pc # "failed"
            /\ follower_clients =
                   SelectSeq(config_followers, LAMBDA f : f \in succeeded)
            /\ pc # "followers" =>
                   attempted = {config_followers[k] : k \in DOMAIN config_followers}
            /\ succeeded = {} => placements = <<>> /\ copy_records = <<>>

\* Two followers configured, both failed; an accepted order went through the
\* copy step.
C17_Witness ==
    /\ last_op = "copy"
    /\ config_followers = Followers
    /\ follower_clients = <<>>
    /\ ~settings.dry_run
    /\ evaluated # {}
    /\ placements = <<>> /\ copy_records = <<>>

\* C18: if the master session fails to initialize, initialize_clients raises:
\* no follower session is attempted, nothing is seeded, no tick happens, and
\* the run has ended.
C18_MasterFailureIsFatal ==
    (program = "copy" /\ init_trace # <<>> /\ init_trace[1].result # "success") =>
        /\ pc = "failed"
        /\ last_op = "initialize_clients"
        /\ Len(init_trace) = 1
        /\ \A f \in Accounts \ {Master} : login_count[f] = 0
        /\ follower_clients = <<>>
        /\ seed_ids = {} /\ known_master_orders = {}
        /\ new_orders = <<>> /\ evaluated = {}
        /\ placements = <<>> /\ copy_records = <<>>

\* The master met max_retries throttling-class failures, two followers
\* configured.
C18_Witness ==
    /\ pc = "failed"
    /\ config_followers = Followers
    /\ last_session.account = Master
    /\ last_session.logins = session_max_retries
    /\ last_session.result = "failure"

\* C19: for every order accepted for copying, dry run and confirmation off,
\* a placement is attempted on every active follower and exactly one
\* CopyRecord per active follower is appended, whatever the placements on
\* the other followers did; a follower is active exactly when its session
\* initialization succeeded.
C19_EveryActiveFollower ==
    [][(/\ pc = "copying" /\ last_op' = "copy"
        /\ should_copy_order(MasterOrder(Head(new_orders)), settings).copy
        /\ ~settings.dry_run /\ ~settings.require_confirmation) =>
          LET succeeded == {init_trace[i].account : i \in {j \in DOMAIN init_trace :
                                init_trace[j].result = "success"}} \ {Master}
              active == SelectSeq(config_followers, LAMBDA f : f \in succeeded)
              id == Head(new_orders).orderid
              p == Len(placements)
              r == Len(copy_records)
          IN  /\ Len(placements') = p + Len(active)
              /\ Len(copy_records') = r + Len(active)
              /\ SubSeq(placements', 1, p) = placements
              /\ SubSeq(copy_records', 1, r) = copy_records
              /\ \A k \in 1..Len(active) :
                     /\ placements'[p + k].follower = active[k]
                     /\ placements'[p + k].master_order_id = id
                     /\ copy_records'[r + k].follower = active[k]
                     /\ copy_records'[r + k].master_order_id = id
      ]_vars

\* An order copied to two followers: the first placement failed, the second
\* went through.
C19_Witness ==
    /\ last_op = "copy"
    /\ follower_clients = Followers
    /\ Len(copy_records) = 2 /\ Len(placements) = 2
    /\ ~copy_records[1].success /\ copy_records[1].follower = Followers[1]
    /\ copy_records[2].success /\ copy_records[2].follower = Followers[2]
    /\ copy_records[1].master_order_id = copy_records[2].master_order_id

\* C20: no error raised while handling a tick ends the polling loop of the
\* copy trader: only the external cancellation signal stops it.
C20_OnlyCancellationStops ==
    (program = "copy" /\ pc = "stopped") => last_op = "interrupt"

\* C21: the polling loop that copies orders to followers asks the rate
\* limiter before every order-book call, so it issues no more than
\* max_calls_per_minute order-book calls within a 60-second window.
C21_LoopRateLimited ==
    program = "copy" => tick_calls <= max_calls_per_minute

\* C22: api_calls_count is incremented on every outbound order-book call,
\* whether the call returns or raises: it equals the number of order-book
\* calls issued since api_calls_window_start, so no more than
\* max_calls_per_minute calls are issued in one window.
C22_CounterCountsEveryCall ==
    (program \in {"smart", "direct"} /\ pc # "seeding") =>
        /\ api_calls_count = window_calls
        /\ window_calls <= max_calls_per_minute

C24_KnownOnlyGrows ==
    [][pc # "seeding" =>
          /\ known_order_ids \subseteq known_order_ids'
          /\ known_master_orders \subseteq known_master_orders'
      ]_vars

\* A poll of the SmartPollingMonitor added an id to a seeded set, which has
\* kept the seed.
C24_Witness ==
    /\ program = "smart"
    /\ last_op = "check"
    /\ new_orders # <<>>
    /\ seed_ids # {}
    /\ seed_ids \subseteq known_order_ids
    /\ known_order_ids \ seed_ids # {}

\* C25: however many times SmartAPIClient() is constructed in one process,
\* the same object is returned and generateSession succeeds at most once,
\* also when two constructions overlap in different threads.
C25_OneObjectOneSession ==
    program = "web" =>
        /\ generated <= 1
        /\ \A t, u \in Threads :
               (thread_client[t] # 0 /\ thread_client[u] # 0) =>
                   thread_client[t] = thread_client[u]

\* C26: at most one polling loop runs per monitoring process: two monitor
\* threads never run together and two order-book polls are never in flight
\* at once, also when /api/start is requested while the automatically started
\* monitor is still initializing.
C26_OneLoop ==
    program = "web" => Cardinality(Monitoring) <= 1

C28_AdaptiveInterval ==
    (program = "hours" /\ pc = "done") =>
        LET from_open == \/ clock.hour > 9
                         \/ clock.hour = 9 /\ clock.minute >= 15
            to_close  == \/ clock.hour < 15
                         \/ clock.hour = 15 /\ clock.minute < 30
                         \/ clock.hour = 15 /\ clock.minute = 30
                               /\ clock.second = 0 /\ clock.microsecond = 0
            market    == clock.weekday \in 0..4 /\ from_open /\ to_close
        IN  eval_result = (IF market THEN market_hours_interval ELSE off_hours_interval)

\* C29: polling starts only after the seeding step has loaded the master's
\* order book, so no order that was in the book before start-up is ever
\* reported as new, also when the seed fetch raised an error or was throttled.
C29_NoOldOrderReported ==
    program \in {"smart", "polling", "copy"} =>
        \A id \in start_ids :
            /\ new_count[id] = 0
            /\ pc # "seeding" => id \in known_order_ids \cup known_master_orders

\* C30: the polling monitor moves only along SEEDING -> POLLING <-> BACKOFF
\* -> STOPPED: seeding happens once and before the first poll, BACKOFF is
\* entered only from POLLING by a check whose call raised a throttling error,
\* it is left only to POLLING by time passing until backoff_until, or to
\* STOPPED by an interrupt, no call is made during it, and nothing follows
\* STOPPED.
C30_Lifecycle ==
    [][program = "smart" =>
        LET from == PhaseOf(pc, backoff_until)
            to   == PhaseOf(pc', backoff_until')
        IN  /\ from = "SEEDING" => to \in {"SEEDING", "POLLING"}
            /\ from = "POLLING" => to \in {"POLLING", "BACKOFF", "STOPPED"}
            /\ from = "BACKOFF" => to \in {"BACKOFF", "POLLING", "STOPPED"}
            /\ from = "STOPPED" => UNCHANGED vars
            /\ last_op' = "seed" <=> from = "SEEDING"
            /\ to = "SEEDING" => from = "SEEDING" /\ attempt' = attempt + 1
            /\ (from # "BACKOFF" /\ to = "BACKOFF") =>
                   /\ from = "POLLING"
                   /\ last_op' = "check"
                   /\ last_call'.called /\ last_call'.kind = "RateError"
            /\ (from = "BACKOFF" /\ to = "BACKOFF") =>
                   /\ backoff_until' <= backoff_until
                   /\ last_op' = "check" => ~last_call'.called
            /\ (from = "BACKOFF" /\ to = "POLLING") =>
                   /\ last_op' = "sleep"
                   /\ backoff_until' # NoValue /\ now >= backoff_until'
            /\ to = "STOPPED" => last_op' = "interrupt"
    ]_vars

\* A monitor back in POLLING after a backoff that time has ended.
C30_Witness ==
    /\ program = "smart" /\ pc = "polling" /\ last_op = "sleep"
    /\ consecutive_rate_limits > 0
    /\ backoff_until # NoValue /\ now >= backoff_until

\* C31: record_copy appends one CopyRecord per call and never changes or
\* removes an earlier record: the records only grow at the end, by one for
\* each placement attempted. failed_copies is at all times the sub-sequence of
\* copy_records whose success is false, in the same order, and its length is
\* the 'failed' statistic.
C31_RecordsAppendOnly ==
    /\ [](program = "copy" =>
            /\ failed_copies = SelectSeq(copy_records, LAMBDA r : r.success = FALSE)
            /\ Len(failed_copies) = get_statistics(copy_records).failed)
    /\ [][program = "copy" =>
            /\ Len(copy_records') >= Len(copy_records)
            /\ SubSeq(copy_records', 1, Len(copy_records)) = copy_records
            /\ Len(copy_records') - Len(copy_records) = Len(placements') - Len(placements)
        ]_vars

\* Records of a placement that succeeded and of one that failed.
C31_Witness ==
    /\ program = "copy"
    /\ Len(failed_copies) >= 1
    /\ Len(copy_records) > Len(failed_copies)
    /\ copy_records[1].success

\* C32: a poll whose order-book fetch raises, or returns nothing, no 'data',
\* a null 'data' or an empty one, reports no new orders and leaves the
\* known-order set and the copy records unchanged.
C32_FailedFetchChangesNothing ==
    [][(last_op' = "check" /\ fetched' \in {"RateError", "OtherError", "None", "NoData",
                                            "NullData", "EmptyData"}) =>
          /\ new_orders' = <<>>
          /\ pc' # "copying"
          /\ known_order_ids' = known_order_ids
          /\ known_master_orders' = known_master_orders
          /\ copy_records' = copy_records
          /\ failed_copies' = failed_copies
          /\ placements' = placements
      ]_vars

\* A copy trader that knows an order and has copied it, after a poll whose
\* fetch raised.
C32_Witness ==
    /\ program = "copy" /\ last_op = "check"
    /\ fetched = "OtherError"
    /\ known_master_orders # {}
    /\ copy_records # <<>>

\* C33: no step of the polling loop blocks forever: every wait, the
\* confirmation included, is bounded, so a tick that has orders to copy is
\* eventually followed by the next tick (in a session nobody cancels).
C33_EveryTickEnds ==
    (program = "copy" /\ pc = "copying") ~> (pc = "polling")

\* C34: the placement request built for a follower copies variety,
\* tradingsymbol, symboltoken, transactiontype, exchange, ordertype,
\* producttype, duration and price from the master order (an absent variety
\* as NORMAL, an absent duration as DAY, an absent price as '0'; price as
\* text), sets squareoff and stoploss to '0', sets quantity to the text of the
\* quantity calculated for the follower, and carries triggerprice, as text,
\* exactly when the master order has a value for it that is not empty or zero.
C34_PlacementRequest ==
    (program = "params" /\ pc = "done") =>
        LET m == eval_order
            p == eval_result
            has_trigger == "triggerprice" \in DOMAIN m /\ PyTruthy(m.triggerprice)
        IN  /\ \A k \in {"tradingsymbol", "symboltoken", "transactiontype", "exchange",
                          "ordertype", "producttype"} : p[k] = m[k]
            /\ p.variety = (IF "variety" \in DOMAIN m THEN m.variety ELSE "NORMAL")
            /\ p.duration = (IF "duration" \in DOMAIN m THEN m.duration ELSE "DAY")
            /\ p.price = (IF "price" \in DOMAIN m THEN PyStr(m.price) ELSE "0")
            /\ p.squareoff = "0" /\ p.stoploss = "0"
            /\ p.quantity = IntStr(calculate_follower_quantity(PyInt(m.quantity), settings))
            /\ "triggerprice" \in DOMAIN p <=> has_trigger
            /\ has_trigger => p.triggerprice = PyStr(m.triggerprice)
            /\ DOMAIN p \ {"triggerprice"} =
                   {"variety", "tradingsymbol", "symboltoken", "transactiontype", "exchange",
                    "ordertype", "producttype", "duration", "price", "squareoff", "stoploss",
                    "quantity"}

\* A request with the defaults of variety and duration, half the master's
\* quantity and a trigger price.
C34_Witness ==
    /\ program = "params" /\ pc = "done"
    /\ "variety" \notin DOMAIN eval_order /\ "duration" \notin DOMAIN eval_order
    /\ eval_order.quantity = StrValue("50")
    /\ eval_result.quantity = "25"
    /\ ~settings.use_fixed_quantity
    /\ eval_result.price = "150"
    /\ "triggerprice" \in DOMAIN eval_result /\ eval_result.triggerprice = "148.5"

\* C35: with dry_run on, copy_order_to_followers never calls place_order on
\* a follower and appends no CopyRecord, whatever the order and the number of
\* active followers, in every tick of the session.
C35_DryRunPlacesNothing ==
    (program = "copy" /\ settings.dry_run) =>
        /\ placements = <<>>
        /\ copy_records = <<>>
        /\ failed_copies = <<>>

\* A dry run with two active followers in which two orders that pass the
\* filter have gone through copy_order_to_followers.
C35_Witness ==
    /\ program = "copy" /\ settings.dry_run
    /\ last_op = "copy"
    /\ Len(get_all_active_followers) = 2
    /\ Cardinality({o.orderid : o \in evaluated}) = 2

\* C36: an order whose first observed status is not 'complete' is never
\* passed to the evaluator or copied later in the session, also after a later
\* order book has shown the same orderId with status 'complete'.
C36_SkippedStaysSkipped ==
    program = "copy" =>
        /\ completed_later \subseteq skipped
        /\ \A id \in skipped :
               /\ \A i \in DOMAIN new_orders : new_orders[i].orderid # id
               /\ \A o \in evaluated : o.orderid # id
               /\ \A i \in DOMAIN placements : placements[i].master_order_id # id
               /\ \A i \in DOMAIN copy_records : copy_records[i].master_order_id # id

\* An order first seen open that a later order book showed complete, in a
\* session that has copied another order.
C36_Witness ==
    /\ program = "copy"
    /\ completed_later # {}
    /\ copy_records # <<>>

\* C37: an order-book poll that fails with an error that is not
\* throttling-class leaves consecutive_rate_limits, backoff_until, the call
\* counter and the window start unchanged, and the next tick polls again
\* without backoff.
C37_OtherErrorLeavesLimiter ==
    [][(last_op' = "check" /\ last_call'.called /\ last_call'.kind = "OtherError") =>
          /\ consecutive_rate_limits' = consecutive_rate_limits
          /\ backoff_until' = backoff_until
          /\ api_calls_count' = api_calls_count
          /\ api_calls_window_start' = api_calls_window_start
          /\ ~(backoff_until' # NoValue /\ now < backoff_until')
      ]_vars

\* C37, amended: such a poll leaves consecutive_rate_limits and backoff_until
\* unchanged and the call counter and the window start as _check_rate_limit
\* left them before the call: unchanged within a window that has room, reset
\* to 0 and to the present when the window had expired or was full; the next
\* tick polls again without backoff.
C37_OtherErrorLeavesLimiterAsChecked ==
    [][(last_op' = "check" /\ last_call'.called /\ last_call'.kind = "OtherError") =>
          LET expired == now - api_calls_window_start >= WindowSeconds
              full    == api_calls_count >= max_calls_per_minute
          IN  /\ consecutive_rate_limits' = consecutive_rate_limits
              /\ backoff_until' = backoff_until
              /\ (~expired /\ ~full) =>
                     /\ api_calls_count' = api_calls_count
                     /\ api_calls_window_start' = api_calls_window_start
              /\ (expired \/ full) =>
                     /\ api_calls_count' = 0
                     /\ api_calls_window_start' = now
              /\ ~(backoff_until' # NoValue /\ now < backoff_until')
      ]_vars

\* A poll that failed with another error after a backoff had passed: the
\* count of throttling errors and the stale backoff_until are still there.
C37_Witness ==
    /\ last_op = "check" /\ last_call.called /\ last_call.kind = "OtherError"
    /\ consecutive_rate_limits > 0
    /\ backoff_until = now

====
